---- MODULE Spec2Model ----
(***************************************************************************)
(* Model of video-dl: the retrying download engine (core/downloader.py),   *)
(* the URL validation run at construction, and the video processing        *)
(* pipeline (core/processor.py).                                           *)
(*                                                                         *)
(* Optional values are modelled as sequences of length at most one:        *)
(* None is <<>> and a present value x is <<x>>.  Strings whose content      *)
(* matters (URLs, messages, file names) are sequences of tokens.           *)
(***************************************************************************)
EXTENDS Integers, Sequences, FiniteSets, TLC

VARIABLES
    url,          \* config.url, a sequence of tokens
    retries,      \* config.retries
    pc,           \* position of download(): "ready", "loop", "done"
    attempt,      \* loop variable of download()
    last_error,   \* local last_error of download()
    result,       \* the DownloadResult returned (Optional)
    raised,       \* exception that escaped download() (Optional)
    events,       \* history: engine invocations and backoff sleeps, in order
    quality,      \* config.quality, a sequence of tokens
    format_id,    \* config.format_id (Optional)
    proxy,        \* config.proxy (Optional)
    limit_speed,  \* config.limit_speed (Optional), a sequence of characters
    ydl_opts,     \* self.ydl_opts once __init__ has set it (Optional)
    ctor_msg,     \* message of the ValidationError raised by __init__
    size_result,  \* outcome of _parse_size_string called on its own (Optional)
    config,       \* the ProcessingConfig of the VideoProcessor
    files,        \* names that exist in the directory of the input file
    input,        \* name of input_path, a sequence of tokens
    op,           \* entry point running: "none", "_get_output_path", "process_video"
    pv_pc,        \* position in it: "idle", "while", "filters", "returned", "raised"
    counter,      \* local counter of _get_output_path
    output_path,  \* local output_path of _get_output_path / process_video
    stream,       \* filters applied to the stream handle, in order
    output_args,  \* keyword arguments handed to ffmpeg.output
    run_count,    \* number of ffmpeg.run invocations
    run_outcome,  \* history: what the last ffmpeg.run did (Optional)
    pv_result,    \* value returned by the entry point (Optional)
    pv_error,     \* exception raised by the entry point (Optional)
    vstr,         \* argument of a validator called on its own, a token sequence
    v_op,         \* validator called: "none", "_validate_crop", "_validate_resize"
    v_result,     \* its outcome (Optional): the tuple returned or the error raised
    subs,         \* cues of the subtitle file whose timing is adjusted
    prev_subs,    \* history: the cues before the last adjustment
    orig_subs,    \* history: the cues before the first adjustment
    shifts,       \* history: the offsets applied, in units of half a millisecond
    sub_config,   \* the SubtitleConfig of the SubtitleDownloader
    sfs,          \* the output directory: file name -> Optional [text, enc]
    listing,      \* the order in which the directory lists its entries
    s_op,         \* entry point called: "none", "download", "_convert_to_srt",
                  \* "_fix_encoding", "_remove_formatting"
    s_arg,        \* the file handed to an operation called on its own
    s_pc,         \* "idle", "returned", "raised"
    s_result,     \* the paths returned, in order
    s_collected,  \* history: downloaded_files before the merge step
    s_error,      \* class of the exception raised (Optional)
    s_log,        \* history: the steps taken on files and the errors logged
    s_written,    \* history: the directory as extract_info left it
    s_scanned,    \* history: the directory after the loop over the patterns
    directory,    \* FileRotator.directory: name -> Optional [size, mtime, kind]
    max_size,     \* FileRotator.max_size
    pattern,      \* FileRotator.pattern: "*" or "*.txt"
    rot_pc,       \* position in rotate(): "idle", "while", "returned"
    total_size,   \* local total_size of rotate()
    rot_files,    \* local files of rotate(): [file, size, mtime] records, in order
    rot_before,   \* history: the directory when rotate() was called
    rot_deleted,  \* history: the names unlinked, in order
    rot_failed,   \* history: the names whose unlink raised
    hook_events,  \* history: progress events the last attempt delivered to the hook
    hook_printed, \* history: what _progress_hook printed during the last attempt
    hook_error    \* history: exception _progress_hook raised in it (Optional)

dlVars == <<url, retries, pc, attempt, last_error, result, raised, events>>

procVars == <<config, files, input, op, pv_pc, counter, output_path, stream,
              output_args, run_count, run_outcome, pv_result, pv_error>>

ctorVars == <<quality, format_id, proxy, limit_speed, ydl_opts, ctor_msg,
              size_result>>

valVars == <<vstr, v_op, v_result>>

timeVars == <<subs, prev_subs, orig_subs, shifts>>

subVars == <<sub_config, sfs, listing, s_op, s_arg, s_pc, s_result,
             s_collected, s_error, s_log, s_written, s_scanned>>

rotVars == <<directory, max_size, pattern, rot_pc, total_size, rot_files,
             rot_before, rot_deleted, rot_failed>>

hookVars == <<hook_events, hook_printed, hook_error>>

restVars == <<valVars, timeVars, subVars, rotVars, hookVars>>

vars == <<dlVars, ctorVars, procVars, restVars>>

None == <<>>
Some(x) == <<x>>

\* ---------------------------------------------------------------- bounds
MaxRetries == 3

\* Largest counter of a name that already exists in the directory
MaxExisting == 2

\* Largest number of separated parts of a crop / resize argument
MaxParts == 5

\* Largest number of characters of the numeric part of a size string
MaxNumLen == 3

\* Largest number of cues of a subtitle file
MaxCues == 2

\* Largest offset of a timing adjustment, in half milliseconds
MaxOffset == 5

\* Largest number of successive timing adjustments of one file
MaxShifts == 2

\* Largest number of lines of a file handed to _convert_to_srt
MaxLines == 5

\* Largest modification time and largest cap of the rotated directories.
MaxMtime == 2
MaxCap == 3

\* Rotations handed to _apply_video_filters: -MaxRotate .. MaxRotate degrees.
MaxRotate == 271

\* Longest text, in tokens, of the files handed to the encoding fix and the
\* formatting removal called on their own.
MaxTokens == 3

\* Most progress events the engine delivers during one attempt.
MaxEvents == 2

\* DownloadConfig.retries default
DefaultRetries == 3

\* ------------------------------------------------------- URL validation
\* A URL is a sequence of tokens; every token stands for the characters it
\* spells.  LongSegment is a path segment of 2084 characters.
LongSegment == "<2084 chars>"
LongSegmentLen == 2084
MaxUrlLen == 2083

TokLen(t) ==
    CASE t = LongSegment -> LongSegmentLen
      [] t \in {":", "/", "?", "#", "t"} -> 1
      [] t = "//" -> 2
      [] t \in {"ftp", "v=1"} -> 3
      [] t \in {"http", "www."} -> 4
      [] t \in {"https", "HTTPS", "watch", "video"} -> 5
      [] t = "youtu.be" -> 8
      [] t = "not_a_url" -> 9
      [] t = "vimeo.com" -> 9
      [] OTHER -> 11

RECURSIVE UrlLen(_)
UrlLen(u) == IF u = <<>> THEN 0 ELSE TokLen(Head(u)) + UrlLen(Tail(u))

\* Tokens spelled only with scheme characters (letters, digits, + - .).
SchemeCharTokens ==
    {"http", "https", "HTTPS", "ftp", "www.", "youtube.com", "youtu.be",
     "vimeo.com", "example.com", "watch", "video", "t"}

Lower(t) == IF t = "HTTPS" THEN "https" ELSE t

\* Index of the first token of s that is in T, 0 when there is none.
IndexOf(s, T) ==
    IF \E i \in DOMAIN s : s[i] \in T
    THEN CHOOSE i \in DOMAIN s :
            s[i] \in T /\ \A j \in 1..(i - 1) : s[j] \notin T
    ELSE 0

\* urllib.parse.urlparse: scheme up to the first ':', netloc after '//' up
\* to the first of '/', '?', '#', then fragment, query and path.
urlparse(u) ==
    LET c == IndexOf(u, {":"})
        hasScheme == c > 1 /\ \A j \in 1..(c - 1) : u[j] \in SchemeCharTokens
        scheme == IF hasScheme THEN [j \in 1..(c - 1) |-> Lower(u[j])] ELSE <<>>
        r1 == IF hasScheme THEN SubSeq(u, c + 1, Len(u)) ELSE u
        hasNetloc == r1 # <<>> /\ r1[1] = "//"
        body == IF hasNetloc THEN Tail(r1) ELSE <<>>
        d == IndexOf(body, {"/", "//", "?", "#"})
        netloc == IF d = 0 THEN body ELSE SubSeq(body, 1, d - 1)
        r2 == IF hasNetloc
              THEN (IF d = 0 THEN <<>> ELSE SubSeq(body, d, Len(body)))
              ELSE r1
        h == IndexOf(r2, {"#"})
        fragment == IF h = 0 THEN <<>> ELSE SubSeq(r2, h + 1, Len(r2))
        r3 == IF h = 0 THEN r2 ELSE SubSeq(r2, 1, h - 1)
        q == IndexOf(r3, {"?"})
        query == IF q = 0 THEN <<>> ELSE SubSeq(r3, q + 1, Len(r3))
        path == IF q = 0 THEN r3 ELSE SubSeq(r3, 1, q - 1)
    IN [scheme |-> scheme, netloc |-> netloc, path |-> path,
        query |-> query, fragment |-> fragment]

\* VideoDownloader._validate_url: None, or the message of the
\* ValidationError it raises.
validate_url(u) ==
    IF u = <<>>
    THEN Some(<<"URL cannot be empty">>)
    ELSE LET r == urlparse(u) IN
         IF /\ r.scheme \in {<<"http">>, <<"https">>}
            /\ r.netloc # <<>>
            /\ (r.path # <<>> \/ r.query # <<>> \/ r.fragment # <<>>)
            /\ UrlLen(u) <= MaxUrlLen
         THEN None
         ELSE Some(<<"Invalid URL format: ">> \o u)

\* URLs handed to the constructor: every combination of the parts below.
UrlSchemes == {<<>>, <<"http">>, <<"https">>, <<"HTTPS">>, <<"ftp">>}
UrlColons == {<<>>, <<":">>}
UrlSlashes == {<<>>, <<"//">>}
UrlWww == {<<>>, <<"www.">>}
UrlHosts == {<<>>, <<"youtube.com">>, <<"youtu.be">>, <<"example.com">>}
UrlPaths == {<<>>, <<"/">>, <<"/", "video">>, <<"/", LongSegment>>, <<"not_a_url">>}
UrlQueries == {<<>>, <<"?", "v=1">>}
UrlFragments == {<<>>, <<"#", "t">>}

Urls ==
    {s \o c \o l \o w \o h \o p \o q \o f :
        s \in UrlSchemes, c \in UrlColons, l \in UrlSlashes, w \in UrlWww,
        h \in UrlHosts, p \in UrlPaths, q \in UrlQueries, f \in UrlFragments}

\* ------------------------------------------------- _parse_size_string
\* A size string is a sequence of characters.  Python integers are
\* unbounded: a byte count is a sequence of base-1024 limbs, most
\* significant first and without leading zeros (0 is the empty sequence).
Limb == 1024

DigitChars == {"0", "1", "2", "3", "4", "5", "6", "7", "8", "9"}
DigitVal(c) ==
    CASE c = "0" -> 0 [] c = "1" -> 1 [] c = "2" -> 2 [] c = "3" -> 3
      [] c = "4" -> 4 [] c = "5" -> 5 [] c = "6" -> 6 [] c = "7" -> 7
      [] c = "8" -> 8 [] c = "9" -> 9

\* str.strip() and str.upper()
Whitespace == {" "}
RECURSIVE LStrip(_)
LStrip(str) ==
    IF str # <<>> /\ Head(str) \in Whitespace THEN LStrip(Tail(str)) ELSE str
RECURSIVE RStrip(_)
RStrip(str) ==
    IF str # <<>> /\ str[Len(str)] \in Whitespace
    THEN RStrip(SubSeq(str, 1, Len(str) - 1)) ELSE str
Strip(str) == RStrip(LStrip(str))

UpperChar(c) ==
    CASE c = "k" -> "K" [] c = "m" -> "M" [] c = "g" -> "G" [] c = "x" -> "X"
      [] c = "f" -> "F" [] c = "a" -> "A" [] c = "s" -> "S" [] c = "t" -> "T"
      [] OTHER -> c
Upper(str) == [i \in DOMAIN str |-> UpperChar(str[i])]

\* Line 50: re.match(r'^([\d.]+)([KMG])?$', size_str), as the two groups.
UnitChars == {"K", "M", "G"}
SizeUnit(t) ==
    IF t # <<>> /\ t[Len(t)] \in UnitChars THEN <<t[Len(t)]>> ELSE <<>>
SizeNumber(t) == SubSeq(t, 1, Len(t) - Len(SizeUnit(t)))
SizeMatches(t) ==
    /\ SizeNumber(t) # <<>>
    /\ \A i \in DOMAIN SizeNumber(t) : SizeNumber(t)[i] \in DigitChars \cup {"."}

\* Variant: float() reads a numeral with any number of decimal points.
FloatOk_AnyDots(num) == \E i \in DOMAIN num : num[i] \in DigitChars

\* Line 56: float(value) succeeds on digits with at most one decimal point.
FloatOk(num) ==
    /\ Cardinality({i \in DOMAIN num : num[i] = "."}) <= 1
    /\ \E i \in DOMAIN num : num[i] \in DigitChars

\* The numeral as a fraction: all its digits read as one integer, over ten
\* to the number of digits that follow the first decimal point.
IsDigitChar(c) == c \in DigitChars
RECURSIVE IntOfChars(_)
IntOfChars(ds) ==
    IF ds = <<>> THEN 0
    ELSE IntOfChars(SubSeq(ds, 1, Len(ds) - 1)) * 10 + DigitVal(ds[Len(ds)])
Numerator(num) == IntOfChars(SelectSeq(num, IsDigitChar))
FracDigits(num) ==
    LET i == IndexOf(num, {"."}) IN
    IF i = 0 THEN 0
    ELSE Len(SelectSeq(SubSeq(num, i + 1, Len(num)), IsDigitChar))

\* Variant: G is given the multiplier of M.
UnitExp_NoGiga(unit) ==
    CASE unit = <<"K">> -> 1 [] unit = <<"M">> -> 2 [] unit = <<"G">> -> 2
      [] OTHER -> 0

\* Lines 41-45 and 61: the multiplier of a unit is 1024 to this power.
UnitExp(unit) ==
    CASE unit = <<"K">> -> 1 [] unit = <<"M">> -> 2 [] unit = <<"G">> -> 3
      [] OTHER -> 0

RECURSIVE Normalize(_)
Normalize(ls) == IF ls # <<>> /\ Head(ls) = 0 THEN Normalize(Tail(ls)) ELSE ls
ToLimbs(n) == Normalize(<<n \div (Limb * Limb), (n \div Limb) % Limb, n % Limb>>)
Zeros(k) == [i \in 1..k |-> 0]

\* Long division of a limb sequence by a small divisor; the remainder of
\* the more significant limbs is carried in r.
RECURSIVE LongDiv(_, _, _)
LongDiv(ls, dv, r) ==
    IF ls = <<>> THEN <<>>
    ELSE LET cur == r * Limb + Head(ls) IN
         <<cur \div dv>> \o LongDiv(Tail(ls), dv, cur % dv)

\* Line 61: int(value * multiplier), the product truncated to an integer.
SizeValue(num, unit) ==
    Normalize(LongDiv(ToLimbs(Numerator(num)) \o Zeros(UnitExp(unit)),
                      10 ^ FracDigits(num), 0))

\* _parse_size_string, lines 39-62: the ValidationError raised, or the value.
parse_size_string(size_str) ==
    LET t == Upper(Strip(size_str)) IN
    IF ~SizeMatches(t)
    THEN [err |-> Some(<<"Invalid size format: ">> \o t), val |-> <<>>]
    ELSE IF ~FloatOk(SizeNumber(t))
         THEN [err |-> Some(<<"Invalid numeric value: ">> \o SizeNumber(t)),
               val |-> <<>>]
         ELSE [err |-> None, val |-> SizeValue(SizeNumber(t), SizeUnit(t))]

\* ------------------------------------------------------ _prepare_ydl_opts
\* DownloadConfig.__post_init__, config.py lines 57-59.
PostInit(q) ==
    IF q # <<"best">> /\ (q = <<>> \/ q[Len(q)] # "p") THEN q \o <<"p">> ELSE q

\* str.rstrip('p')
RECURSIVE rstrip_p(_)
rstrip_p(q) ==
    IF q # <<>> /\ q[Len(q)] = "p" THEN rstrip_p(SubSeq(q, 1, Len(q) - 1)) ELSE q

\* Lines 66-70: the selector derived from the quality.
BestFormat ==
    <<"bestvideo[ext=mp4][vcodec^=avc]+bestaudio[ext=m4a]/best[ext=mp4][vcodec^=avc]/best">>
HeightFormat(height) ==
    <<"bestvideo[height<=">> \o height
        \o <<"][ext=mp4][vcodec^=avc]+bestaudio[ext=m4a]/best[height<=">> \o height
        \o <<"][ext=mp4][vcodec^=avc]/best">>
FormatSpec(q) == IF q = <<"best">> THEN BestFormat ELSE HeightFormat(rstrip_p(q))

\* Variant: the selector derived from the quality wins over the format id.
FormatSelector_QualityFirst(fid, q) == FormatSpec(q)

\* Line 73: self.config.format_id or format_spec
FormatSelector(fid, q) == IF fid # None /\ fid[1] # <<>> THEN fid[1] ELSE FormatSpec(q)

\* Lines 72-92: the ValidationError raised, or the option set.
prepare_ydl_opts(q, fid, px, ls, n) ==
    LET parsed == IF ls # None /\ ls[1] # <<>>
                  THEN parse_size_string(ls[1])
                  ELSE [err |-> None, val |-> <<>>]
    IN
    IF parsed.err # None
    THEN [err |-> Some(<<"Invalid rate limit: ">> \o parsed.err[1]), opts |-> None]
    ELSE [err |-> None,
          opts |-> Some([format |-> FormatSelector(fid, q),
                         outtmpl |-> "%(title)s.%(ext)s",
                         retries |-> n,
                         quiet |-> FALSE,
                         progress_hooks |-> <<"_progress_hook">>,
                         merge_output_format |-> "mp4",
                         proxy |-> IF px # None /\ px[1] # <<>> THEN px ELSE None,
                         ratelimit |-> IF ls # None /\ ls[1] # <<>>
                                       THEN Some(parsed.val) ELSE None])]

\* ------------------------------------------------------ video processor
\* File names are sequences of tokens; a token starting with '.' is an
\* extension.
ExtTokens == {".mp4", ".tar", ".gz", ".vtt", ".srt"}

\* pathlib: Path.suffix and Path.stem of the final component.
PathSuffix(name) ==
    IF Len(name) > 1 /\ name[Len(name)] \in ExtTokens
    THEN <<name[Len(name)]>> ELSE <<>>
PathStem(name) == SubSeq(name, 1, Len(name) - Len(PathSuffix(name)))

\* Truthiness of an optional string / an optional integer / a flag.
TruthyStr(x) == x # None /\ x[1] # <<>>
TruthyInt(x) == x # None /\ x[1] # 0

\* str.split(sep): the parts between the separator tokens.
RECURSIVE Split(_, _)
Split(str, sep) ==
    LET i == IndexOf(str, {sep}) IN
    IF i = 0 THEN <<str>>
    ELSE <<SubSeq(str, 1, i - 1)>> \o Split(SubSeq(str, i + 1, Len(str)), sep)

\* int(part): the tokens that spell an integer, and their values.
IntTokens == {"0", "360", "640", "720", "1280"}
IntOf(t) ==
    CASE t = "0" -> 0 [] t = "360" -> 360 [] t = "640" -> 640
      [] t = "720" -> 720 [] t = "1280" -> 1280
DigitsLen(t) == CASE t = "0" -> 1 [] t = "1280" -> 4 [] OTHER -> 3
SignTokens == {"-", "+"}

\* Value of a run of digit tokens read as one decimal numeral.
RECURSIVE IntOfDigits(_)
IntOfDigits(ds) ==
    IF ds = <<>> THEN 0
    ELSE IntOfDigits(SubSeq(ds, 1, Len(ds) - 1)) * 10 ^ DigitsLen(ds[Len(ds)])
         + IntOf(ds[Len(ds)])

\* int(part) succeeds on an optional sign followed by at least one digit.
Unsigned(part) ==
    IF part # <<>> /\ part[1] \in SignTokens THEN Tail(part) ELSE part
IsInt(part) ==
    /\ Unsigned(part) # <<>>
    /\ \A i \in DOMAIN Unsigned(part) : Unsigned(part)[i] \in IntTokens
IntOfPart(part) ==
    IF part[1] = "-" THEN 0 - IntOfDigits(Unsigned(part))
    ELSE IntOfDigits(Unsigned(part))

\* _validate_crop, lines 55-68.
validate_crop(crop_str) ==
    LET parts == Split(crop_str, ":") IN
    IF crop_str = <<>> \/ Len(parts) # 4
    THEN [err |-> Some("Invalid crop format"), val |-> <<>>]
    ELSE IF \A k \in 1..4 : IsInt(parts[k])
         THEN [err |-> None, val |-> [k \in 1..4 |-> IntOfPart(parts[k])]]
         ELSE [err |-> Some("Invalid crop values"), val |-> <<>>]

\* Variant: a part that is not an integer is reported as a format error.
validate_resize_FormatOnly(resize_str) ==
    LET parts == Split(resize_str, "x") IN
    IF Len(parts) = 2 /\ \A k \in 1..2 : IsInt(parts[k])
    THEN [err |-> None, val |-> [k \in 1..2 |-> IntOfPart(parts[k])]]
    ELSE [err |-> Some("Invalid resize format"), val |-> <<>>]

\* _validate_resize, lines 70-79.
validate_resize(resize_str) ==
    LET parts == Split(resize_str, "x") IN
    IF resize_str = <<>> \/ IndexOf(resize_str, {"x"}) = 0
    THEN [err |-> Some("Invalid resize format"), val |-> <<>>]
    ELSE IF Len(parts) = 2 /\ \A k \in 1..2 : IsInt(parts[k])
         THEN [err |-> None, val |-> [k \in 1..2 |-> IntOfPart(parts[k])]]
         ELSE [err |-> Some("Invalid resize values"), val |-> <<>>]

Filter(name, args) == [name |-> name, args |-> args]

\* Lines 105-110: the five filters of the HDR to SDR conversion.
HdrFilters ==
    << Filter("zscale t=linear npl=100", <<>>),
       Filter("format pix_fmt=gbrp", <<>>),
       Filter("zscale p=bt709", <<>>),
       Filter("tonemap tonemap=hable", <<>>),
       Filter("zscale t=bt709 m=bt709 r=tv", <<>>) >>

\* Lines 91-110 of process_video: the stream after the filter stages, or
\* the message of the ProcessingError a validator raised.
CropStage(cfg, st) ==
    IF TruthyStr(cfg.crop)
    THEN LET v == validate_crop(cfg.crop[1]) IN
         IF v.err # None THEN [err |-> v.err, stream |-> st]
         ELSE [err |-> None, stream |-> Append(st, Filter("crop", v.val))]
    ELSE [err |-> None, stream |-> st]

ResizeStage(cfg, st) ==
    IF TruthyStr(cfg.resize)
    THEN LET v == validate_resize(cfg.resize[1]) IN
         IF v.err # None THEN [err |-> v.err, stream |-> st]
         ELSE [err |-> None, stream |-> Append(st, Filter("scale", v.val))]
    ELSE [err |-> None, stream |-> st]

FpsStage(cfg, st) ==
    IF TruthyInt(cfg.fps) THEN Append(st, Filter("fps", <<cfg.fps[1]>>)) ELSE st

HdrStage(cfg, st) == IF cfg.hdr_to_sdr THEN st \o HdrFilters ELSE st

BuildFilters(cfg) ==
    LET c == CropStage(cfg, <<>>) IN
    IF c.err # None THEN c
    ELSE LET r == ResizeStage(cfg, c.stream) IN
         IF r.err # None THEN r
         ELSE [err |-> None, stream |-> HdrStage(cfg, FpsStage(cfg, r.stream))]

\* _apply_video_filters, lines 128-175: the stages of the auxiliary path.
\* st is [err, filters, stream]; a stage after an error does nothing.
AuxCrop(cfg, st) ==
    IF st.err # None \/ ~TruthyStr(cfg.crop) THEN st
    ELSE LET parts == Split(cfg.crop[1], ":") IN
         IF Len(parts) = 4 /\ \A k \in 1..4 : IsInt(parts[k])
         THEN [st EXCEPT !.filters =
                 Append(@, Filter("crop", [k \in 1..4 |-> IntOfPart(parts[k])]))]
         ELSE [st EXCEPT !.err = Some("Invalid crop format. Use width:height:x:y")]

AuxResize(cfg, st) ==
    IF st.err # None \/ ~TruthyStr(cfg.resize) THEN st
    ELSE LET parts == Split(cfg.resize[1], "x") IN
         IF Len(parts) = 2 /\ \A k \in 1..2 : IsInt(parts[k])
         THEN [st EXCEPT !.filters =
                 Append(@, Filter("scale", [k \in 1..2 |-> IntOfPart(parts[k])]))]
         ELSE [st EXCEPT !.err = Some("Invalid resize format. Use widthxheight")]

\* Variant: every multiple of a quarter turn is accepted.
RotationAllowed_QuarterTurns(r) == r % 90 = 0

\* Line 149: self.config.rotate not in [90, 180, 270]
RotationAllowed(r) == r \in {90, 180, 270}

AuxRotate(cfg, st) ==
    IF st.err # None \/ ~TruthyInt(cfg.rotate) THEN st
    ELSE IF ~RotationAllowed(cfg.rotate[1])
         THEN [st EXCEPT !.err = Some("Rotation must be 90, 180, or 270 degrees")]
         ELSE [st EXCEPT !.filters = Append(@, Filter("rotate", <<cfg.rotate[1]>>))]

AuxFps(cfg, st) ==
    IF st.err # None \/ ~TruthyInt(cfg.fps) THEN st
    ELSE [st EXCEPT !.stream = Append(@, Filter("fps", <<cfg.fps[1]>>))]

AuxTail(cfg, st) ==
    IF st.err # None THEN st
    ELSE [st EXCEPT !.filters =
            @ \o (IF cfg.stabilize
                  THEN << Filter("vidstabdetect", <<>>), Filter("vidstabtransform", <<>>) >>
                  ELSE <<>>)
              \o (IF cfg.denoise THEN <<Filter("nlmeans", <<>>)>> ELSE <<>>)
              \o (IF cfg.hdr_to_sdr THEN HdrFilters ELSE <<>>)]

apply_video_filters(cfg) ==
    LET st == AuxTail(cfg, AuxFps(cfg, AuxRotate(cfg, AuxResize(cfg,
                AuxCrop(cfg, [err |-> None, filters |-> <<>>, stream |-> <<>>])))))
    IN IF st.err = None /\ st.filters # <<>>
       THEN [st EXCEPT !.stream = Append(@, Filter("filter_multi_output", st.filters))]
       ELSE st

\* _get_output_args, lines 198-211: a set of <<key, value>> pairs.
get_output_args(cfg) ==
    (IF TruthyStr(cfg.video_codec) THEN {<<"vcodec", cfg.video_codec[1]>>} ELSE {})
    \cup (IF TruthyStr(cfg.video_bitrate) THEN {<<"b:v", cfg.video_bitrate[1]>>} ELSE {})
    \cup (IF TruthyStr(cfg.audio_bitrate) THEN {<<"b:a", cfg.audio_bitrate[1]>>} ELSE {})

\* Lines 215-219: suffix and stem used for the output name.
OutputSuffix(cfg, name) ==
    IF cfg.extract_audio THEN <<".", cfg.audio_format>> ELSE PathSuffix(name)

\* Line 221 and line 226: the candidate names.
FirstCandidate(stem, suffix) == stem \o <<"_processed">> \o suffix
NumberedCandidate(stem, suffix, c) ==
    stem \o <<"_processed_", ToString(c)>> \o suffix

\* Variant: existence is checked for the first candidate only.
LoopCondition_FirstOnly(p, c, fs) == p \in fs /\ c = 1

\* Line 225: while output_path.exists()
LoopCondition(p, c, fs) == p \in fs

\* What ffmpeg.run can do: return, or raise ffmpeg.Error carrying the
\* captured stderr of the process that exited with a non-zero status.
RunOutcomes ==
    { [kind |-> "ok", stderr |-> <<>>],
      [kind |-> "ffmpeg.Error", stderr |-> <<"FFmpeg processing error">>],
      [kind |-> "ffmpeg.Error", stderr |-> <<>>] }

\* Variant: the message is built without the captured stderr.
FfmpegErrorMsg_NoStderr(stderr) == <<"FFmpeg error: ">>

\* Lines 124-126: the message of the ProcessingError that wraps ffmpeg.Error.
FfmpegErrorMsg(stderr) == <<"FFmpeg error: ">> \o stderr

ProcError(class, msg) == Some([class |-> class, msg |-> msg])

\* ------------------------------------------------------------ the engine
\* Messages an exception of the extraction engine may carry.
Msgs == { <<>>, <<"First try">>, <<"ERROR: ", "Unsupported URL", ": x">> }

\* Files the engine may name, contents it may have written, info dicts.
Paths == { <<"out/", "Test Video", ".mp4">> }
Contents == { <<>>, <<7, 7>> }
Infos == { [title |-> Some("Test Video"), duration |-> Some(120)],
           [title |-> None, duration |-> None] }

NoFile == [path |-> <<>>, exists |-> FALSE, content |-> <<>>]

NoInfo == [title |-> None, duration |-> None]

\* What one pass through the try block of download() can meet.
\*   "UnsupportedError"  extract_info raised yt_dlp.utils.UnsupportedError
\*   "DownloadError"     extract_info raised yt_dlp.utils.DownloadError
\*   "Exception"         extract_info raised any other Exception
\*   "info"              extract_info returned; the file it names exists or not
\*   "post_error"        extract_info returned and the file exists, but a later
\*                       step (stat, checksum, metadata) raised an Exception
Outcomes ==
    [kind : {"UnsupportedError", "DownloadError", "Exception"},
     msg : Msgs, info : {NoInfo}, file : {NoFile}]
    \cup
    [kind : {"info"}, msg : {<<>>}, info : Infos,
     file : [path : Paths, exists : {TRUE}, content : Contents]
            \cup [path : Paths, exists : {FALSE}, content : {<<>>}]]
    \cup
    [kind : {"post_error"}, msg : Msgs, info : {NoInfo},
     file : [path : Paths, exists : {TRUE}, content : {<<>>}]]

\* "Unsupported URL" in str(e)
Contains(msg, tok) == \E i \in DOMAIN msg : msg[i] = tok

\* hashlib.sha256 over the whole content: injective on the modelled contents
calculate_checksum(content) == <<"sha256">> \o content

\* info.get(key, default) for the modelled keys
extract_metadata(info) ==
    [title |-> IF info.title = None THEN "" ELSE info.title[1],
     duration |-> info.duration]

UnsupportedPlatformMsg(u) == <<"Platform not supported for URL: ">> \o u
FileNotFoundMsg(path) == <<"Download completed but file not found: ">> \o path

\* Variant: only the exception class is recognised, not the message text.
IsUnsupportedPlatform_ClassOnly(o) == o.kind = "UnsupportedError"

\* Lines 114-118: which engine failures become UnsupportedPlatformError.
IsUnsupportedPlatform(o) ==
    \/ o.kind = "UnsupportedError"
    \/ o.kind = "DownloadError" /\ Contains(o.msg, "Unsupported URL")

\* Variant: the existence check of line 124 is left out.
IsSuccess_NoExistsCheck(o) == o.kind = "info"

\* The attempt reaches the return of line 131.
IsSuccess(o) == o.kind = "info" /\ o.file.exists

\* str(e) of the exception caught at line 154.
GenericErrorMsg(o) ==
    IF o.kind = "info" THEN FileNotFoundMsg(o.file.path) ELSE o.msg

\* Variant: the handler names the engine's DownloadError family only.
CaughtByExceptException_Narrow(o) == o.kind # "Exception"

\* Line 154: except Exception.  Every modelled failure is an Exception:
\* the engine's exceptions, the DownloadError of line 125, and the
\* OSError / AttributeError a later step may raise.
CaughtByExceptException(o) ==
    o.kind \in {"UnsupportedError", "DownloadError", "Exception", "info", "post_error"}

\* Variant: the first error is kept instead of the latest.
RecordError_KeepFirst(prev, o) ==
    IF prev = <<>> THEN <<IF o.kind = "info"
                          THEN <<"Download completed but file not found: ">> \o o.file.path
                          ELSE o.msg>>
    ELSE prev

\* Line 155: last_error = str(e)
RecordError(prev, o) == Some(GenericErrorMsg(o))

\* Line 158: does a backoff sleep follow the failed attempt?
ShouldSleep(a, n) == a < n - 1

\* Variant: linear instead of exponential backoff.
BackoffSeconds_Linear(a) == 2 * a

\* Line 159: sleep_time = 2 ** attempt
BackoffSeconds(a) == 2 ^ a

\* Variant: the size is not read from the file.
SuccessResult_NoSize(o) ==
    [success |-> TRUE, filepath |-> <<o.file.path>>, error |-> <<>>,
     metadata |-> <<[title |-> IF o.info.title = <<>> THEN "" ELSE o.info.title[1],
                     duration |-> o.info.duration]>>,
     filesize |-> 0,
     checksum |-> <<(<<"sha256">> \o o.file.content)>>]

SuccessResult(o) ==
    [success |-> TRUE, filepath |-> Some(o.file.path), error |-> None,
     metadata |-> Some(extract_metadata(o.info)),
     filesize |-> Len(o.file.content),
     checksum |-> Some(calculate_checksum(o.file.content))]

FailureResult(err) ==
    [success |-> FALSE, filepath |-> None, error |-> err,
     metadata |-> None, filesize |-> 0, checksum |-> None]

CallEvent(a, o) == [type |-> "call", attempt |-> a, secs |-> 0, outcome |-> o]
SleepEvent(a, s) ==
    [type |-> "sleep", attempt |-> a, secs |-> s,
     outcome |-> [kind |-> "none", msg |-> <<>>, info |-> NoInfo, file |-> NoFile]]

\* ------------------------------------------------------------ download()
\* Lines 104-106.
DownloadStart ==
    /\ pc = "ready"
    /\ pc' = "loop"
    /\ attempt' = 0
    /\ last_error' = None
    /\ UNCHANGED <<url, retries, result, raised, events>>
    /\ UNCHANGED <<ctorVars, procVars, restVars>>

\* Lines 108-139: an attempt that returns the success result.
AttemptSuccess ==
    /\ pc = "loop" /\ attempt < retries
    /\ \E o \in Outcomes :
        /\ IsSuccess(o)
        /\ events' = Append(events, CallEvent(attempt, o))
        /\ result' = Some(SuccessResult(o))
    /\ pc' = "done"
    /\ UNCHANGED <<url, retries, attempt, last_error, raised>>
    /\ UNCHANGED <<ctorVars, procVars, restVars>>

\* Lines 114-118, 141-152: unsupported platform, returned without retry.
AttemptUnsupported ==
    /\ pc = "loop" /\ attempt < retries
    /\ \E o \in Outcomes :
        /\ IsUnsupportedPlatform(o)
        /\ events' = Append(events, CallEvent(attempt, o))
        /\ result' = Some(FailureResult(Some(UnsupportedPlatformMsg(url))))
    /\ pc' = "done"
    /\ UNCHANGED <<url, retries, attempt, last_error, raised>>
    /\ UNCHANGED <<ctorVars, procVars, restVars>>

\* Lines 119, 124-125, 141-161: any other exception.  Caught by the
\* handler of line 154 it is recorded and followed by the backoff sleep;
\* an exception no handler catches leaves download().
AttemptFailed ==
    /\ pc = "loop" /\ attempt < retries
    /\ \E o \in Outcomes :
        /\ ~IsSuccess(o) /\ ~IsUnsupportedPlatform(o)
        /\ IF CaughtByExceptException(o)
           THEN /\ last_error' = RecordError(last_error, o)
                /\ events' =
                     IF ShouldSleep(attempt, retries)
                     THEN events \o <<CallEvent(attempt, o),
                                      SleepEvent(attempt, BackoffSeconds(attempt))>>
                     ELSE Append(events, CallEvent(attempt, o))
                /\ attempt' = attempt + 1
                /\ UNCHANGED <<pc, raised>>
           ELSE /\ events' = Append(events, CallEvent(attempt, o))
                /\ raised' = Some(o.kind)
                /\ pc' = "done"
                /\ UNCHANGED <<attempt, last_error>>
    /\ UNCHANGED <<url, retries, result>>
    /\ UNCHANGED <<ctorVars, procVars, restVars>>

\* Lines 163-172: the loop ran out.
Exhausted ==
    /\ pc = "loop" /\ attempt >= retries
    /\ result' = Some(FailureResult(last_error))
    /\ pc' = "done"
    /\ UNCHANGED <<url, retries, attempt, last_error, raised, events>>
    /\ UNCHANGED <<ctorVars, procVars, restVars>>

\* ---------------------------------------- _get_output_path, process_video
DefaultConfig ==
    [crop |-> None, resize |-> None, rotate |-> None, fps |-> None,
     hdr_to_sdr |-> FALSE, extract_audio |-> FALSE, audio_format |-> "mp3",
     video_codec |-> Some(<<"libx264">>), audio_codec |-> Some(<<"aac">>),
     video_bitrate |-> None, audio_bitrate |-> None]

ProcIdle ==
    /\ config = DefaultConfig
    /\ files = {}
    /\ input = <<>>
    /\ op = "none"
    /\ pv_pc = "idle"
    /\ counter = 0
    /\ output_path = <<>>
    /\ stream = <<>>
    /\ output_args = {}
    /\ run_count = 0
    /\ run_outcome = None
    /\ pv_result = None
    /\ pv_error = None

\* ------------------------------------------------- subtitle downloader
\* A file of the output directory is [text, enc]: its text as a sequence
\* of tokens, "\n" being the line break, and the encoding of its bytes
\* ("utf-8", "utf-16", or "unknown" when chardet detects none).  Languages
\* and formats are kept as the name parts they select: ".en", ".vtt".
SubFile(text, enc) == Some([text |-> text, enc |-> enc])
Readable(fs, file) == fs[file] # None /\ fs[file][1].enc = "utf-8"

MergedName == <<"merged_subtitles", ".srt">>
SubNames ==
    { <<"T", ".en", ".vtt">>, <<"T", ".en", ".srt">>, <<"T", ".es", ".vtt">>,
      <<"T", ".es", ".srt">>, <<"U", ".vtt">>, <<"U", ".srt">>, MergedName }
SubOrder ==
    << <<"T", ".en", ".vtt">>, <<"T", ".es", ".vtt">>, <<"U", ".vtt">>,
       <<"T", ".en", ".srt">>, <<"T", ".es", ".srt">>, <<"U", ".srt">>, MergedName >>

\* SubtitleConfig defaults, config.py lines 64-81.
DefaultSubtitleConfig ==
    [languages |-> <<".en">>, formats |-> <<".vtt", ".srt">>,
     convert_to_srt |-> TRUE, fix_encoding |-> TRUE,
     remove_formatting |-> FALSE, merge_subtitles |-> FALSE,
     time_offset |-> 0]

\* The names a rotated directory may hold, in the order glob() lists them.
RotOrder == << <<"a", ".txt">>, <<"b", ".txt">>, <<"c", ".txt">>, <<"d", ".log">> >>
RotNames == {RotOrder[i] : i \in DOMAIN RotOrder}

ValIdle ==
    /\ vstr = <<>>
    /\ v_op = "none"
    /\ v_result = None

TimeIdle ==
    /\ subs = <<>>
    /\ prev_subs = <<>>
    /\ orig_subs = <<>>
    /\ shifts = <<>>

SubIdle ==
    /\ sub_config = DefaultSubtitleConfig
    /\ sfs = [n \in SubNames |-> None]
    /\ listing = SubOrder
    /\ s_op = "none"
    /\ s_arg = <<>>
    /\ s_pc = "idle"
    /\ s_result = <<>>
    /\ s_collected = <<>>
    /\ s_error = None
    /\ s_log = <<>>
    /\ s_written = [n \in SubNames |-> None]
    /\ s_scanned = [n \in SubNames |-> None]

RotIdle ==
    /\ directory = [n \in RotNames |-> None]
    /\ max_size = 0
    /\ pattern = "*"
    /\ rot_pc = "idle"
    /\ total_size = 0
    /\ rot_files = <<>>
    /\ rot_before = [n \in RotNames |-> None]
    /\ rot_deleted = <<>>
    /\ rot_failed = {}

HookIdle ==
    /\ hook_events = <<>>
    /\ hook_printed = <<>>
    /\ hook_error = None

RestIdle == ValIdle /\ TimeIdle /\ SubIdle /\ RotIdle /\ HookIdle

\* The fields of a DownloadConfig built with its defaults, config.py 33-47.
CtorDefaults ==
    /\ quality = <<"best">>
    /\ format_id = None
    /\ proxy = None
    /\ limit_speed = None
    /\ ctor_msg = <<>>
    /\ size_result = None

\* A downloader whose __init__ has returned.
CtorReady ==
    /\ CtorDefaults
    /\ ydl_opts = prepare_ydl_opts(<<"best">>, None, None, None, retries).opts

DlIdle ==
    /\ url = <<"https", ":", "//", "www.", "youtube.com", "/", "watch", "?", "v=1">>
    /\ retries = DefaultRetries
    /\ pc = "ready"
    /\ attempt = 0
    /\ last_error = None
    /\ result = None
    /\ raised = None
    /\ events = <<>>
    /\ CtorReady

\* _get_output_path called on its own, lines 215-224.
CallGetOutputPath ==
    /\ pv_pc = "idle"
    /\ op' = "_get_output_path"
    /\ output_path' = FirstCandidate(PathStem(input), OutputSuffix(config, input))
    /\ counter' = 1
    /\ pv_pc' = "while"
    /\ UNCHANGED <<config, files, input, stream, output_args, run_count,
                   run_outcome, pv_result, pv_error>>
    /\ UNCHANGED <<dlVars, ctorVars, restVars>>

\* process_video, lines 83-87: the input must exist, then _get_output_path.
CallProcessVideo ==
    /\ pv_pc = "idle"
    /\ op' = "process_video"
    /\ IF input \notin files
       THEN /\ pv_error' = ProcError("ProcessingError",
                                     <<"Input file not found: ">> \o input)
            /\ pv_pc' = "raised"
            /\ UNCHANGED <<output_path, counter>>
       ELSE /\ output_path' =
                 FirstCandidate(PathStem(input), OutputSuffix(config, input))
            /\ counter' = 1
            /\ pv_pc' = "while"
            /\ UNCHANGED pv_error
    /\ UNCHANGED <<config, files, input, stream, output_args, run_count,
                   run_outcome, pv_result>>
    /\ UNCHANGED <<dlVars, ctorVars, restVars>>

\* Lines 225-227: one iteration of the while loop.
GopIterate ==
    /\ pv_pc = "while"
    /\ LoopCondition(output_path, counter, files)
    /\ output_path' =
         NumberedCandidate(PathStem(input), OutputSuffix(config, input), counter)
    /\ counter' = counter + 1
    /\ UNCHANGED <<config, files, input, op, pv_pc, stream, output_args,
                   run_count, run_outcome, pv_result, pv_error>>
    /\ UNCHANGED <<dlVars, ctorVars, restVars>>

\* Line 229: the loop ends and _get_output_path returns to its caller.
GopReturn ==
    /\ pv_pc = "while"
    /\ ~LoopCondition(output_path, counter, files)
    /\ IF op = "_get_output_path"
       THEN pv_result' = Some(output_path) /\ pv_pc' = "returned"
       ELSE pv_pc' = "filters" /\ UNCHANGED pv_result
    /\ UNCHANGED <<config, files, input, op, counter, output_path, stream,
                   output_args, run_count, run_outcome, pv_error>>
    /\ UNCHANGED <<dlVars, ctorVars, restVars>>

\* process_video, lines 88-126: the filter stages, the output arguments and
\* the run of the transcoding engine.
PvFiltersRun ==
    /\ pv_pc = "filters"
    /\ LET b == BuildFilters(config) IN
       IF b.err # None
       THEN /\ stream' = b.stream
            /\ pv_error' = ProcError("ProcessingError", <<b.err[1]>>)
            /\ pv_pc' = "raised"
            /\ UNCHANGED <<files, output_args, run_count, run_outcome, pv_result>>
       ELSE \E r \in RunOutcomes :
            /\ stream' = b.stream
            /\ output_args' = get_output_args(config)
            /\ run_count' = run_count + 1
            /\ run_outcome' = Some(r)
            /\ IF r.kind = "ok"
               THEN /\ files' = files \cup {output_path}
                    /\ pv_result' = Some(output_path)
                    /\ pv_pc' = "returned"
                    /\ UNCHANGED pv_error
               ELSE /\ pv_error' = ProcError("ProcessingError",
                                             FfmpegErrorMsg(r.stderr))
                    /\ pv_pc' = "raised"
                    /\ UNCHANGED <<files, pv_result>>
    /\ UNCHANGED <<config, input, op, counter, output_path>>
    /\ UNCHANGED <<dlVars, ctorVars, restVars>>

\* Directory contents for _get_output_path: the input and the first
\* candidate names, for both suffixes the configuration can ask for.
PathNames == { <<"test", ".mp4">>, <<"test">>, <<".hidden">>, <<"a", ".tar", ".gz">> }

NameUniverse(name) ==
    {name}
    \cup {FirstCandidate(PathStem(name), sfx) :
            sfx \in {PathSuffix(name), <<".", "mp3">>}}
    \cup {NumberedCandidate(PathStem(name), sfx, k) :
            sfx \in {PathSuffix(name), <<".", "mp3">>}, k \in 1..MaxExisting}

PathInit ==
    /\ DlIdle
    /\ RestIdle
    /\ config \in {[DefaultConfig EXCEPT !.extract_audio = b] : b \in BOOLEAN}
    /\ input \in PathNames
    /\ files \in SUBSET NameUniverse(input)
    /\ op = "none"
    /\ pv_pc = "idle"
    /\ counter = 0
    /\ output_path = <<>>
    /\ stream = <<>>
    /\ output_args = {}
    /\ run_count = 0
    /\ run_outcome = None
    /\ pv_result = None
    /\ pv_error = None

PathNext == CallGetOutputPath \/ GopIterate \/ GopReturn

PathSpec == PathInit /\ [][PathNext]_vars

\* The loop body is finite and runs without interruption.
PathFairSpec == PathSpec /\ WF_vars(PathNext)

CropInputs ==
    { None,
      Some(<<"1280", ":", "720", ":", "0", ":", "0">>),
      Some(<<"1280", ":", "720">>),
      Some(<<"abc", ":", "def", ":", "0", ":", "0">>) }
ResizeInputs ==
    { None, Some(<<"640", "x", "360">>), Some(<<"1280">>), Some(<<"a", "x", "b">>) }
RotateInputs == { None, Some(90), Some(180), Some(300) }
FpsInputs == { None, Some(30) }
VideoCodecInputs == { None, Some(<<"libx264">>) }
AudioCodecInputs == { None, Some(<<"aac">>) }
VideoBitrateInputs == { None, Some(<<"5M">>) }
AudioBitrateInputs == { None, Some(<<"192k">>) }

ProcConfigs ==
    [crop : CropInputs, resize : ResizeInputs, rotate : RotateInputs,
     fps : FpsInputs, hdr_to_sdr : BOOLEAN, extract_audio : BOOLEAN,
     audio_format : {"mp3"},
     video_codec : VideoCodecInputs, audio_codec : AudioCodecInputs,
     video_bitrate : VideoBitrateInputs, audio_bitrate : AudioBitrateInputs]

ProcInput == <<"test", ".mp4">>

ProcInit ==
    /\ DlIdle
    /\ RestIdle
    /\ config \in ProcConfigs
    /\ input = ProcInput
    /\ files \in SUBSET {ProcInput, <<"test", "_processed", ".mp4">>}
    /\ op = "none"
    /\ pv_pc = "idle"
    /\ counter = 0
    /\ output_path = <<>>
    /\ stream = <<>>
    /\ output_args = {}
    /\ run_count = 0
    /\ run_outcome = None
    /\ pv_result = None
    /\ pv_error = None

ProcNext == CallProcessVideo \/ GopIterate \/ GopReturn \/ PvFiltersRun

ProcSpec == ProcInit /\ [][ProcNext]_vars

\* _apply_video_filters(stream) called on a fresh input stream.
CallApplyVideoFilters ==
    /\ pv_pc = "idle"
    /\ op' = "_apply_video_filters"
    /\ LET r == apply_video_filters(config) IN
       /\ stream' = r.stream
       /\ IF r.err # None
          THEN /\ pv_error' = ProcError("ProcessingError", <<r.err[1]>>)
               /\ pv_pc' = "raised"
               /\ UNCHANGED pv_result
          ELSE /\ pv_result' = Some(r.filters)
               /\ pv_pc' = "returned"
               /\ UNCHANGED pv_error
    /\ UNCHANGED <<config, files, input, counter, output_path, output_args,
                   run_count, run_outcome>>
    /\ UNCHANGED <<dlVars, ctorVars, restVars>>

AuxRotateInputs == {None} \cup {Some(r) : r \in (0 - MaxRotate)..MaxRotate}
AuxConfigs ==
    [crop : CropInputs, resize : ResizeInputs, rotate : AuxRotateInputs,
     fps : FpsInputs, stabilize : BOOLEAN, denoise : BOOLEAN, hdr_to_sdr : BOOLEAN]

AuxInit ==
    /\ DlIdle
    /\ RestIdle
    /\ config \in AuxConfigs
    /\ input = ProcInput
    /\ files = {ProcInput}
    /\ op = "none"
    /\ pv_pc = "idle"
    /\ counter = 0
    /\ output_path = <<>>
    /\ stream = <<>>
    /\ output_args = {}
    /\ run_count = 0
    /\ run_outcome = None
    /\ pv_result = None
    /\ pv_error = None

AuxNext == CallApplyVideoFilters

AuxSpec == AuxInit /\ [][AuxNext]_vars

\* ------------------------------------------- subtitle downloader, steps
\* Path.glob: the existing names the pattern selects, in listing order.
Exists(fs, name) == name \in DOMAIN fs /\ fs[name] # None
MatchesLangFmt(name, lang, fmt) ==
    Len(name) >= 3 /\ name[Len(name) - 1] = lang /\ name[Len(name)] = fmt
MatchesVtt(name) == Len(name) >= 2 /\ name[Len(name)] = ".vtt"
IsLangFmt(name, lang, fmt, fs) == Exists(fs, name) /\ MatchesLangFmt(name, lang, fmt)
IsVtt(name, fs) == Exists(fs, name) /\ MatchesVtt(name)
RECURSIVE GlobLangFmt(_, _, _, _)
GlobLangFmt(fs, order, lang, fmt) ==
    IF order = <<>> THEN <<>>
    ELSE (IF IsLangFmt(Head(order), lang, fmt, fs) THEN <<Head(order)>> ELSE <<>>)
         \o GlobLangFmt(fs, Tail(order), lang, fmt)
RECURSIVE GlobVtt(_, _)
GlobVtt(fs, order) ==
    IF order = <<>> THEN <<>>
    ELSE (IF IsVtt(Head(order), fs) THEN <<Head(order)>> ELSE <<>>)
         \o GlobVtt(fs, Tail(order))

\* _fix_encoding, lines 31-50: the file rewritten as UTF-8, or the error.
fix_encoding(fs, file) ==
    IF ~Exists(fs, file) THEN [err |-> Some("FileNotFoundError"), fs |-> fs]
    ELSE IF fs[file][1].enc = "unknown"
         THEN [err |-> Some("SubtitleError"), fs |-> fs]
         ELSE [err |-> None,
               fs |-> [fs EXCEPT ![file] = SubFile(fs[file][1].text, "utf-8")]]

\* Variant: the timing line is copied unchanged.
ReplaceDots_Keep(line) == line

\* Line 213: line.replace('.', ',')
ReplaceDots(line) == [i \in DOMAIN line |-> IF line[i] = "." THEN "," ELSE line[i]]

\* Lines 207 and 211: line.strip() == '' and '-->' in line
IsBlank(line) == \A i \in DOMAIN line : line[i] \in Whitespace
IsTiming(line) == \E i \in DOMAIN line : line[i] = " --> "

\* Lines 205-218: the loop over the lines of the VTT text.
RECURSIVE ConvertLines(_, _, _)
ConvertLines(lines, skip_webvtt_header, cnt) ==
    IF lines = <<>> THEN <<>>
    ELSE IF skip_webvtt_header
         THEN ConvertLines(Tail(lines), ~IsBlank(Head(lines)), cnt)
         ELSE IF IsTiming(Head(lines))
              THEN <<<<ToString(cnt)>>, ReplaceDots(Head(lines))>>
                   \o ConvertLines(Tail(lines), FALSE, cnt + 1)
              ELSE <<Head(lines)>> \o ConvertLines(Tail(lines), FALSE, cnt)

\* '\n'.join(lines)
RECURSIVE JoinLines(_)
JoinLines(lines) ==
    IF lines = <<>> THEN <<>>
    ELSE IF Len(lines) = 1 THEN lines[1]
         ELSE lines[1] \o <<"\n">> \o JoinLines(Tail(lines))

\* Variant: every readable .vtt file is converted, whatever it holds.
convert_to_srt_NoHeaderTest(fs, file) ==
    LET srt_file == PathStem(file) \o <<".srt">> IN
    IF PathSuffix(file) = <<".vtt">> /\ Readable(fs, file)
    THEN [path |-> srt_file,
          fs |-> [fs EXCEPT ![srt_file] =
                    SubFile(JoinLines(ConvertLines(Split(fs[file][1].text, "\n"),
                                                   TRUE, 1)), "utf-8")]]
    ELSE [path |-> file, fs |-> fs]

\* _convert_to_srt, lines 188-230: the path returned and the directory.
convert_to_srt(fs, file) ==
    LET srt_file == PathStem(file) \o <<".srt">> IN
    IF PathSuffix(file) = <<".vtt">> /\ Readable(fs, file)
       /\ Contains(fs[file][1].text, "WEBVTT")
    THEN [path |-> srt_file,
          fs |-> [fs EXCEPT ![srt_file] =
                    SubFile(JoinLines(ConvertLines(Split(fs[file][1].text, "\n"),
                                                   TRUE, 1)), "utf-8")]]
    ELSE [path |-> file, fs |-> fs]

\* _remove_formatting, lines 256-266: tags are whole tokens.
IsTag(tok) == tok \in {"<b>", "</b>", "<i>", "</i>", "{y:i}"}
NotTag(tok) == ~IsTag(tok)
remove_formatting(fs, file) ==
    IF Readable(fs, file)
    THEN [fs EXCEPT ![file] = SubFile(SelectSeq(fs[file][1].text, NotTag), "utf-8")]
    ELSE fs

\* Variant: the separator is written after every file.
MergeSeparator_Always(content) == <<"\n", "\n">>

\* Lines 275-276: "\n\n" unless the content ends with it.
MergeSeparator(content) ==
    IF Len(content) >= 2 /\ content[Len(content)] = "\n"
       /\ content[Len(content) - 1] = "\n"
    THEN <<>> ELSE <<"\n", "\n">>

\* Lines 272-276: what the loop writes; it stops at a file it cannot read.
RECURSIVE MergedText(_, _)
MergedText(fs, fls) ==
    IF fls = <<>> THEN [err |-> None, text |-> <<>>]
    ELSE IF ~Readable(fs, Head(fls))
         THEN [err |-> Some("SubtitleError"), text |-> <<>>]
         ELSE LET content == fs[Head(fls)][1].text
                  rest == MergedText(fs, Tail(fls))
              IN [err |-> rest.err,
                  text |-> content \o MergeSeparator(content) \o rest.text]

\* _merge_subtitles, lines 268-281.
merge_subtitles(fs, fls) ==
    LET m == MergedText(fs, fls) IN
    [err |-> m.err, path |-> MergedName,
     fs |-> [fs EXCEPT ![MergedName] = SubFile(m.text, "utf-8")]]

\* A step of download() on a file: the operation, the file it was given
\* and the path it produced.
LogEntry(o, file, path) == [op |-> o, file |-> file, path |-> path]

\* Variant: the cue times of the file are shifted by one second when an
\* offset is configured.
CollectFile_Adjusted(st, path, cfg) ==
    LET shift(tok) == IF tok = "00:00:01" THEN "00:00:02"
                      ELSE IF tok = "00:00:04" THEN "00:00:05" ELSE tok
        fs2 == IF cfg.time_offset # 0 /\ Readable(st.fs, path)
               THEN [st.fs EXCEPT ![path] =
                       SubFile([i \in DOMAIN st.fs[path][1].text |->
                                  shift(st.fs[path][1].text[i])], "utf-8")]
               ELSE st.fs
    IN [st EXCEPT !.fs = fs2,
                  !.collected = Append(@, path),
                  !.log = Append(@, LogEntry("append", path, path))]

\* Line 152: downloaded_files.append(file)
CollectFile(st, path, cfg) ==
    [st EXCEPT !.collected = Append(@, path),
               !.log = Append(@, LogEntry("append", path, path))]

\* Variant: the formatting is removed from the file found, before it is
\* converted.
ProcessFile_StripFirst(st, file, cfg) ==
    IF st.err # None \/ ~Exists(st.fs, file) THEN st
    ELSE LET fx == IF cfg.fix_encoding THEN fix_encoding(st.fs, file)
                   ELSE [err |-> None, fs |-> st.fs]
             fs1 == IF cfg.remove_formatting THEN remove_formatting(fx.fs, file)
                    ELSE fx.fs
             converts == cfg.convert_to_srt /\ PathSuffix(file) = <<".vtt">>
             cv == IF converts THEN convert_to_srt(fs1, file)
                   ELSE [path |-> file, fs |-> fs1]
             fs2 == IF cv.path # file THEN [cv.fs EXCEPT ![file] = None] ELSE cv.fs
             lg == (IF cfg.fix_encoding
                    THEN <<LogEntry("_fix_encoding", file, file)>> ELSE <<>>)
                   \o (IF cfg.remove_formatting
                       THEN <<LogEntry("_remove_formatting", file, file)>>
                       ELSE <<>>)
                   \o (IF converts
                       THEN <<LogEntry("_convert_to_srt", file, cv.path)>> ELSE <<>>)
                   \o (IF cv.path # file
                       THEN <<LogEntry("unlink", file, file)>> ELSE <<>>)
         IN IF fx.err # None
            THEN [st EXCEPT !.fs = fx.fs, !.err = fx.err,
                            !.log = Append(@, LogEntry("_fix_encoding", file, file))]
            ELSE CollectFile([st EXCEPT !.fs = fs2, !.log = @ \o lg], cv.path, cfg)

\* Lines 138-153: the body of the loop over the files of one pattern.  st
\* is [fs, collected, err, log]; after an exception nothing more is done.
ProcessFile(st, file, cfg) ==
    IF st.err # None \/ ~Exists(st.fs, file) THEN st
    ELSE LET fx == IF cfg.fix_encoding THEN fix_encoding(st.fs, file)
                   ELSE [err |-> None, fs |-> st.fs]
             converts == cfg.convert_to_srt /\ PathSuffix(file) = <<".vtt">>
             cv == IF converts THEN convert_to_srt(fx.fs, file)
                   ELSE [path |-> file, fs |-> fx.fs]
             fs2 == IF cv.path # file THEN [cv.fs EXCEPT ![file] = None] ELSE cv.fs
             fs3 == IF cfg.remove_formatting THEN remove_formatting(fs2, cv.path)
                    ELSE fs2
             lg == (IF cfg.fix_encoding
                    THEN <<LogEntry("_fix_encoding", file, file)>> ELSE <<>>)
                   \o (IF converts
                       THEN <<LogEntry("_convert_to_srt", file, cv.path)>> ELSE <<>>)
                   \o (IF cv.path # file
                       THEN <<LogEntry("unlink", file, file)>> ELSE <<>>)
                   \o (IF cfg.remove_formatting
                       THEN <<LogEntry("_remove_formatting", cv.path, cv.path)>>
                       ELSE <<>>)
         IN IF fx.err # None
            THEN [st EXCEPT !.fs = fx.fs, !.err = fx.err,
                            !.log = Append(@, LogEntry("_fix_encoding", file, file))]
            ELSE CollectFile([st EXCEPT !.fs = fs3, !.log = @ \o lg], cv.path, cfg)

\* Sequencing of statements: F applied to the value x, computed once.
Then(x, F(_)) == CHOOSE r \in {F(v) : v \in {x}} : TRUE

RECURSIVE ProcessFiles(_, _, _)
ProcessFiles(st, fls, cfg) ==
    IF fls = <<>> THEN st
    ELSE Then(ProcessFile(st, Head(fls), cfg),
              LAMBDA st1 : ProcessFiles(st1, Tail(fls), cfg))

\* Lines 132-153: for lang in languages: for fmt in formats: glob.
RECURSIVE ProcessFormats(_, _, _, _, _)
ProcessFormats(st, lang, fmts, cfg, order) ==
    IF fmts = <<>> THEN st
    ELSE Then(ProcessFiles(st, GlobLangFmt(st.fs, order, lang, Head(fmts)), cfg),
              LAMBDA st1 : ProcessFormats(st1, lang, Tail(fmts), cfg, order))
RECURSIVE ProcessLanguages(_, _, _, _)
ProcessLanguages(st, langs, cfg, order) ==
    IF langs = <<>> THEN st
    ELSE Then(ProcessFormats(st, Head(langs), cfg.formats, cfg, order),
              LAMBDA st1 : ProcessLanguages(st1, Tail(langs), cfg, order))

\* Lines 155-162: SRT requested but none collected: convert every *.vtt.
RECURSIVE ConvertLeftovers(_, _)
ConvertLeftovers(st, vtts) ==
    IF vtts = <<>> THEN st
    ELSE LET cv == convert_to_srt(st.fs, Head(vtts)) IN
         Then([st EXCEPT !.fs = cv.fs,
                         !.log = Append(@, LogEntry("fallback", Head(vtts), cv.path)),
                         !.collected = IF \E i \in DOMAIN st.collected :
                                             st.collected[i] = cv.path
                                       THEN st.collected
                                       ELSE Append(st.collected, cv.path)],
              LAMBDA st1 : ConvertLeftovers(st1, Tail(vtts)))
\* Variant: the VTT files are converted whatever was collected.
Fallback_Always(st, cfg, order) ==
    IF st.err = None
       /\ (\E i \in DOMAIN cfg.formats : cfg.formats[i] = ".srt")
    THEN ConvertLeftovers(st, GlobVtt(st.fs, order))
    ELSE st

\* Lines 155-162.
Fallback(st, cfg, order) ==
    IF st.err = None
       /\ (\E i \in DOMAIN cfg.formats : cfg.formats[i] = ".srt")
       /\ ~\E i \in DOMAIN st.collected : PathSuffix(st.collected[i]) = <<".srt">>
    THEN ConvertLeftovers(st, GlobVtt(st.fs, order))
    ELSE st

\* What extract_info does: it fails, or it writes the subtitles of some of
\* the requested languages, in the format of 'subtitlesformat' (lines
\* 176-186) or as VTT.
SubtitlesFormat(cfg) ==
    IF \E i \in DOMAIN cfg.formats : cfg.formats[i] = ".vtt" THEN ".vtt" ELSE ".srt"
VttText(lang) ==
    << "WEBVTT", "\n", "\n", "00:00:01", ".", "000", " --> ", "00:00:04", ".",
       "000", "\n", "<b>", "Subtitle in ", lang, "</b>", "\n" >>
SrtText(lang) ==
    << "1", "\n", "00:00:01", ",", "000", " --> ", "00:00:04", ",", "000", "\n",
       "{y:i}", "Subtitle in ", lang, "\n", "\n" >>
EngineText(lang, ext) == IF ext = ".vtt" THEN VttText(lang) ELSE SrtText(lang)
EngineOutcomes(cfg) ==
    {[kind |-> "error", langs |-> {}, ext |-> ".vtt"]}
    \cup [kind : {"ok"},
          langs : SUBSET {cfg.languages[i] : i \in DOMAIN cfg.languages},
          ext : {SubtitlesFormat(cfg), ".vtt"}]
EngineWrites(fs, eng) ==
    [n \in DOMAIN fs |->
        IF Len(n) = 3 /\ n[1] = "T" /\ n[2] \in eng.langs /\ n[3] = eng.ext
        THEN SubFile(EngineText(n[2], n[3]), "utf-8") ELSE fs[n]]

\* download(), lines 119-174: the directory, the list collected, the paths
\* returned and the exception raised.
download(cfg, fs, order, eng) ==
    IF eng.kind = "error"
    THEN [fs |-> fs, collected |-> <<>>, result |-> <<>>,
          err |-> Some("SubtitleError"), log |-> <<>>, written |-> fs,
          scanned |-> fs]
    ELSE Then([fs |-> EngineWrites(fs, eng), collected |-> <<>>,
               err |-> None, log |-> <<>>], LAMBDA st0 :
         Then(ProcessLanguages(st0, cfg.languages, cfg, order), LAMBDA st1 :
         Then(Fallback(st1, cfg, order), LAMBDA st2 :
         Then(merge_subtitles(st2.fs, st2.collected), LAMBDA mg :
         LET hist == [collected |-> st2.collected, log |-> st2.log,
                      written |-> st0.fs, scanned |-> st1.fs]
         IN IF st2.err # None
            THEN hist @@ [fs |-> st2.fs, result |-> <<>>,
                          err |-> Some("SubtitleError")]
            ELSE IF cfg.merge_subtitles /\ Len(st2.collected) > 1
                 THEN hist @@ [fs |-> mg.fs,
                               result |-> IF mg.err = None THEN <<mg.path>> ELSE <<>>,
                               err |-> mg.err]
                 ELSE hist @@ [fs |-> st2.fs, result |-> st2.collected,
                               err |-> None]))))

CallDownloadSubtitles ==
    /\ s_pc = "idle"
    /\ s_op' = "download"
    /\ \E eng \in EngineOutcomes(sub_config) :
       \E r \in {download(sub_config, sfs, listing, eng)} :
         /\ sfs' = r.fs
         /\ s_collected' = r.collected
         /\ s_result' = r.result
         /\ s_error' = r.err
         /\ s_log' = r.log
         /\ s_written' = r.written
         /\ s_scanned' = r.scanned
         /\ s_pc' = IF r.err # None THEN "raised" ELSE "returned"
    /\ UNCHANGED <<sub_config, listing, s_arg>>
    /\ UNCHANGED <<dlVars, ctorVars, procVars, valVars, timeVars, rotVars,
                   hookVars>>

\* _convert_to_srt(s_arg) called on its own.
CallConvertToSrt ==
    /\ s_pc = "idle"
    /\ s_arg # <<>>
    /\ s_op' = "_convert_to_srt"
    /\ LET cv == convert_to_srt(sfs, s_arg) IN
       /\ sfs' = cv.fs
       /\ s_result' = <<cv.path>>
    /\ s_pc' = "returned"
    /\ UNCHANGED <<sub_config, listing, s_arg, s_collected, s_error, s_log,
                   s_written, s_scanned>>
    /\ UNCHANGED <<dlVars, ctorVars, procVars, valVars, timeVars, rotVars,
                   hookVars>>

\* Directories download() may find, configurations, listing orders.
Reverse(sq) == [i \in DOMAIN sq |-> sq[Len(sq) + 1 - i]]
PlainText == << "not a subtitle file" >>
PreExisting(name) ==
    CASE name = <<"T", ".en", ".vtt">> -> {None, SubFile(PlainText, "utf-8")}
      [] name = <<"T", ".en", ".srt">> ->
            {None, SubFile(SrtText("old"), "utf-8"), SubFile(SrtText("old"), "utf-16")}
      [] name = <<"U", ".vtt">> ->
            {None, SubFile(VttText("other"), "utf-8"), SubFile(PlainText, "unknown")}
      [] OTHER -> {None}
SubDirs ==
    {[n \in SubNames |->
        CASE n = <<"T", ".en", ".vtt">> -> a [] n = <<"T", ".en", ".srt">> -> b
          [] n = <<"U", ".vtt">> -> c [] OTHER -> None] :
        a \in PreExisting(<<"T", ".en", ".vtt">>),
        b \in PreExisting(<<"T", ".en", ".srt">>),
        c \in PreExisting(<<"U", ".vtt">>)}
\* SubtitleConfig.time_offset, in units of half a millisecond: 0.0 and 1.0.
TimeOffsets == {0, 2000}
SubConfigs ==
    [languages : {<<".en">>, <<".en", ".es">>},
     formats : {<<".vtt">>, <<".srt">>, <<".vtt", ".srt">>},
     convert_to_srt : BOOLEAN, fix_encoding : BOOLEAN,
     remove_formatting : BOOLEAN, merge_subtitles : BOOLEAN,
     time_offset : TimeOffsets]

SubInit ==
    /\ DlIdle
    /\ ProcIdle
    /\ ValIdle
    /\ TimeIdle
    /\ RotIdle
    /\ HookIdle
    /\ sub_config \in SubConfigs
    /\ sfs \in SubDirs
    /\ listing \in {SubOrder, Reverse(SubOrder)}
    /\ s_op = "none"
    /\ s_arg = <<>>
    /\ s_pc = "idle"
    /\ s_result = <<>>
    /\ s_collected = <<>>
    /\ s_error = None
    /\ s_log = <<>>
    /\ s_written = [n \in SubNames |-> None]
    /\ s_scanned = [n \in SubNames |-> None]

SubNext == CallDownloadSubtitles

SubSpec == SubInit /\ [][SubNext]_vars

\* Files handed to _convert_to_srt: up to MaxLines lines of these kinds.
ConvLineInputs ==
    { <<"WEBVTT">>, <<>>, <<" ">>,
      <<"00:00:01", ".", "000", " --> ", "00:00:04", ".", "000">>,
      <<"Hello", ".">> }
ConvTexts == {JoinLines(ls) : ls \in UNION {[1..n -> ConvLineInputs] : n \in 0..MaxLines}}
ConvArgs == { <<"U", ".vtt">>, <<"U", ".srt">> }

ConvInit ==
    /\ DlIdle
    /\ ProcIdle
    /\ ValIdle
    /\ TimeIdle
    /\ RotIdle
    /\ HookIdle
    /\ sub_config = DefaultSubtitleConfig
    /\ s_arg \in ConvArgs
    /\ \E text \in ConvTexts, enc \in {"utf-8", "utf-16"} :
         sfs = [n \in SubNames |-> IF n = s_arg THEN SubFile(text, enc) ELSE None]
    /\ listing = SubOrder
    /\ s_op = "none"
    /\ s_pc = "idle"
    /\ s_result = <<>>
    /\ s_collected = <<>>
    /\ s_error = None
    /\ s_log = <<>>
    /\ s_written = [n \in SubNames |-> None]
    /\ s_scanned = [n \in SubNames |-> None]

ConvNext == CallConvertToSrt

ConvSpec == ConvInit /\ [][ConvNext]_vars

\* _fix_encoding(s_arg) called on its own, lines 31-50: both failure paths
\* log the error and raise.
CallFixEncoding ==
    /\ s_pc = "idle"
    /\ s_arg # <<>>
    /\ s_op' = "_fix_encoding"
    /\ LET r == fix_encoding(sfs, s_arg) IN
       /\ sfs' = r.fs
       /\ s_error' = r.err
       /\ s_log' = IF r.err # None THEN <<LogEntry("logger.error", s_arg, s_arg)>>
                   ELSE <<>>
       /\ s_pc' = IF r.err # None THEN "raised" ELSE "returned"
    /\ UNCHANGED <<sub_config, listing, s_arg, s_result, s_collected, s_written,
                   s_scanned>>
    /\ UNCHANGED <<dlVars, ctorVars, procVars, valVars, timeVars, rotVars,
                   hookVars>>

\* _remove_formatting(s_arg) called on its own, lines 256-266: an exception
\* of read_text or write_text is logged by the except clause, which ends
\* without a raise.
CallRemoveFormatting ==
    /\ s_pc = "idle"
    /\ s_arg # <<>>
    /\ s_op' = "_remove_formatting"
    /\ sfs' = remove_formatting(sfs, s_arg)
    /\ s_log' = IF Readable(sfs, s_arg) THEN <<>>
                ELSE <<LogEntry("logger.error", s_arg, s_arg)>>
    /\ s_pc' = "returned"
    /\ UNCHANGED <<sub_config, listing, s_arg, s_result, s_collected, s_error,
                   s_written, s_scanned>>
    /\ UNCHANGED <<dlVars, ctorVars, procVars, valVars, timeVars, rotVars,
                   hookVars>>

\* Files handed to the two operations: missing, or a text of up to
\* MaxTokens tokens in UTF-8, in UTF-16, or in no encoding chardet detects.
OpTokens == {"<b>", "Bold text", "</b>", "{y:i}", "\n"}
OpTexts == UNION {[1..n -> OpTokens] : n \in 0..MaxTokens}
OpFiles == {None} \cup {SubFile(t, e) : t \in OpTexts, e \in {"utf-8", "utf-16", "unknown"}}

FileOpInit ==
    /\ DlIdle
    /\ ProcIdle
    /\ ValIdle
    /\ TimeIdle
    /\ RotIdle
    /\ HookIdle
    /\ sub_config = DefaultSubtitleConfig
    /\ s_arg \in ConvArgs
    /\ \E f \in OpFiles : sfs = [n \in SubNames |-> IF n = s_arg THEN f ELSE None]
    /\ listing = SubOrder
    /\ s_op = "none"
    /\ s_pc = "idle"
    /\ s_result = <<>>
    /\ s_collected = <<>>
    /\ s_error = None
    /\ s_log = <<>>
    /\ s_written = [n \in SubNames |-> None]
    /\ s_scanned = [n \in SubNames |-> None]

FileOpNext == CallFixEncoding \/ CallRemoveFormatting

FileOpSpec == FileOpInit /\ [][FileOpNext]_vars

\* ------------------------------------------------------ FileRotator
\* A directory entry is [size, mtime, kind], kind being "file" or "dir".
RotEntry(size, mtime, kind) == Some([size |-> size, mtime |-> mtime, kind |-> kind])

\* Path.glob(pattern) for the two patterns modelled, and Path.is_file().
RotMatches(name, pat) == pat = "*" \/ name[Len(name)] = ".txt"
IsFile(dir, name) == dir[name] # None /\ dir[name][1].kind = "file"

\* Lines 91-95: the (file, size, mtime) records of the matching files, in
\* listing order, and their total size.
RECURSIVE ScanFiles(_, _, _)
ScanFiles(dir, pat, order) ==
    IF order = <<>> THEN <<>>
    ELSE (IF RotMatches(Head(order), pat) /\ IsFile(dir, Head(order))
          THEN <<[file |-> Head(order), size |-> dir[Head(order)][1].size,
                  mtime |-> dir[Head(order)][1].mtime]>>
          ELSE <<>>)
         \o ScanFiles(dir, pat, Tail(order))
RECURSIVE SumSizes(_)
SumSizes(recs) == IF recs = <<>> THEN 0 ELSE Head(recs).size + SumSizes(Tail(recs))

\* Variant: the newest file comes first.
SortsBefore_NewestFirst(x, y) == x.mtime > y.mtime

\* Line 98: files.sort(key=lambda x: x[2]); the sort is stable, so x goes
\* before an already placed y only when its key is smaller.
SortsBefore(x, y) == x.mtime < y.mtime
RECURSIVE InsertSorted(_, _)
InsertSorted(x, sorted) ==
    IF sorted = <<>> THEN <<x>>
    ELSE IF SortsBefore(x, Head(sorted)) THEN <<x>> \o sorted
         ELSE <<Head(sorted)>> \o InsertSorted(x, Tail(sorted))
RECURSIVE SortByMtime(_)
SortByMtime(recs) ==
    IF recs = <<>> THEN <<>>
    ELSE InsertSorted(recs[Len(recs)], SortByMtime(SubSeq(recs, 1, Len(recs) - 1)))

\* Line 101: the condition of the while loop.
RotateCondition == total_size > max_size /\ rot_files # <<>>

\* rotate(), lines 87-98: the scan and the sort.
CallRotate ==
    /\ rot_pc = "idle"
    /\ LET recs == ScanFiles(directory, pattern, RotOrder) IN
       /\ rot_files' = SortByMtime(recs)
       /\ total_size' = SumSizes(recs)
    /\ rot_before' = directory
    /\ rot_pc' = "while"
    /\ UNCHANGED <<directory, max_size, pattern, rot_deleted, rot_failed>>
    /\ UNCHANGED <<dlVars, ctorVars, procVars, valVars, timeVars, subVars,
                   hookVars>>

\* Lines 101-109: one pass of the loop; unlink() removes the file or raises
\* (the file is gone, busy or protected), and the error is only logged.
RotateIterate ==
    /\ rot_pc = "while"
    /\ RotateCondition
    /\ LET rec == Head(rot_files) IN
       /\ rot_files' = Tail(rot_files)
       /\ \E unlinked \in BOOLEAN :
            IF unlinked
            THEN /\ directory' = [directory EXCEPT ![rec.file] = None]
                 /\ total_size' = total_size - rec.size
                 /\ rot_deleted' = Append(rot_deleted, rec.file)
                 /\ UNCHANGED rot_failed
            ELSE /\ rot_failed' = rot_failed \cup {rec.file}
                 /\ UNCHANGED <<directory, total_size, rot_deleted>>
    /\ UNCHANGED <<max_size, pattern, rot_pc, rot_before>>
    /\ UNCHANGED <<dlVars, ctorVars, procVars, valVars, timeVars, subVars,
                   hookVars>>

RotateReturn ==
    /\ rot_pc = "while"
    /\ ~RotateCondition
    /\ rot_pc' = "returned"
    /\ UNCHANGED <<directory, max_size, pattern, total_size, rot_files,
                   rot_before, rot_deleted, rot_failed>>
    /\ UNCHANGED <<dlVars, ctorVars, procVars, valVars, timeVars, subVars,
                   hookVars>>

\* Directories handed to the rotator: three text files of sizes 0 to 2 and
\* a fourth entry that the pattern '*.txt' does not select.
RotSizes == {0, 1, 2}
RotTextEntries ==
    {None} \cup {RotEntry(sz, mt, "file") : sz \in RotSizes, mt \in 1..MaxMtime}
RotOtherEntries == {None, RotEntry(2, 0, "file"), RotEntry(2, 0, "dir")}
RotDirs ==
    {[n \in RotNames |->
        CASE n = <<"a", ".txt">> -> a [] n = <<"b", ".txt">> -> b
          [] n = <<"c", ".txt">> -> c [] OTHER -> d] :
        a \in RotTextEntries, b \in RotTextEntries, c \in RotTextEntries,
        d \in RotOtherEntries}

RotInit ==
    /\ DlIdle
    /\ ProcIdle
    /\ ValIdle
    /\ TimeIdle
    /\ SubIdle
    /\ HookIdle
    /\ directory \in RotDirs
    /\ max_size \in 0..MaxCap
    /\ pattern \in {"*", "*.txt"}
    /\ rot_pc = "idle"
    /\ total_size = 0
    /\ rot_files = <<>>
    /\ rot_before = [n \in RotNames |-> None]
    /\ rot_deleted = <<>>
    /\ rot_failed = {}

RotNext == CallRotate \/ RotateIterate \/ RotateReturn

RotSpec == RotInit /\ [][RotNext]_vars

\* ------------------------------------------- _adjust_subtitle_timing
\* A cue time is the SubRipTime read from the file: hours, minutes, seconds
\* and milliseconds.  An offset of x seconds is given as h = 2000 * x, so
\* that offset * 1000 = h / 2.
\* Variant: halves are rounded up.
RoundMs_HalfUp(h) == (h + 1) \div 2

\* Line 65: round(offset * 1000), halves go to the even neighbour.
RoundMs(h) ==
    IF h % 2 = 0 THEN h \div 2
    ELSE IF ((h - 1) \div 2) % 2 = 0 THEN (h - 1) \div 2 ELSE (h + 1) \div 2

\* Lines 69-76: the total milliseconds of a cue time.
TotalMs(t) == t.hours * 3600000 + t.minutes * 60000 + t.seconds * 1000
              + t.milliseconds

\* Variant: the shifted time is not floored at zero.
ShiftMs_NoClamp(ms, offset_ms) == ms + offset_ms

\* Lines 79-80: max(0, ms + offset_ms)
ShiftMs(ms, offset_ms) == IF ms + offset_ms > 0 THEN ms + offset_ms ELSE 0

\* Lines 83-108: the SubRipTime built from total milliseconds.
SubRipTime(ms) ==
    [hours |-> ms \div 3600000,
     minutes |-> (ms % 3600000) \div 60000,
     seconds |-> ((ms % 3600000) % 60000) \div 1000,
     milliseconds |-> ((ms % 3600000) % 60000) % 1000]

AdjustCue(sub, offset_ms) ==
    [start |-> SubRipTime(ShiftMs(TotalMs(sub.start), offset_ms)),
     end |-> SubRipTime(ShiftMs(TotalMs(sub.end), offset_ms))]

\* _adjust_subtitle_timing(file, offset), lines 52-117: every cue of the
\* file is shifted and the file is saved.
AdjustSubtitleTiming ==
    /\ Len(shifts) < MaxShifts
    /\ \E h \in (0 - MaxOffset)..MaxOffset :
         /\ subs' = [i \in DOMAIN subs |-> AdjustCue(subs[i], RoundMs(h))]
         /\ shifts' = Append(shifts, h)
    /\ prev_subs' = subs
    /\ UNCHANGED orig_subs
    /\ UNCHANGED <<dlVars, ctorVars, procVars, valVars, subVars, rotVars,
                   hookVars>>

\* Cue times of the files: the first instants and the last millisecond
\* before the first hour.
TimeInputs ==
    { [hours |-> 0, minutes |-> 0, seconds |-> 0, milliseconds |-> 0],
      [hours |-> 0, minutes |-> 0, seconds |-> 0, milliseconds |-> 2],
      [hours |-> 0, minutes |-> 59, seconds |-> 59, milliseconds |-> 999] }
CueInputs == [start : TimeInputs, end : TimeInputs]
CueLists == UNION {[1..n -> CueInputs] : n \in 0..MaxCues}

TimeInit ==
    /\ DlIdle
    /\ ProcIdle
    /\ ValIdle
    /\ SubIdle
    /\ RotIdle
    /\ HookIdle
    /\ subs \in CueLists
    /\ prev_subs = subs
    /\ orig_subs = subs
    /\ shifts = <<>>

TimeNext == AdjustSubtitleTiming

TimeSpec == TimeInit /\ [][TimeNext]_vars

\* ----------------------------------- the validators called on their own
\* _validate_crop(vstr), lines 55-68.
CallValidateCrop ==
    /\ v_op = "none"
    /\ v_op' = "_validate_crop"
    /\ v_result' = Some(validate_crop(vstr))
    /\ UNCHANGED vstr
    /\ UNCHANGED <<dlVars, ctorVars, procVars, timeVars, subVars, rotVars,
                   hookVars>>

\* _validate_resize(vstr), lines 70-79.
CallValidateResize ==
    /\ v_op = "none"
    /\ v_op' = "_validate_resize"
    /\ v_result' = Some(validate_resize(vstr))
    /\ UNCHANGED vstr
    /\ UNCHANGED <<dlVars, ctorVars, procVars, timeVars, subVars, rotVars,
                   hookVars>>

\* Arguments: up to MaxParts parts joined by ':' or by 'x'.
ValParts ==
    { <<>>, <<"1280">>, <<"0">>, <<"abc">>, <<"-", "720">>,
      <<"640", "x", "360">> }
ValSeps == {":", "x"}

RECURSIVE Join(_, _)
Join(parts, sep) ==
    IF Len(parts) = 1 THEN parts[1]
    ELSE parts[1] \o <<sep>> \o Join(Tail(parts), sep)

ValStrings ==
    UNION { {Join(ps, sep) : ps \in [1..n -> ValParts]} :
            n \in 1..MaxParts, sep \in ValSeps }

ValInit ==
    /\ DlIdle
    /\ ProcIdle
    /\ vstr \in ValStrings
    /\ v_op = "none"
    /\ v_result = None
    /\ TimeIdle
    /\ SubIdle
    /\ RotIdle
    /\ HookIdle

ValNext == CallValidateCrop \/ CallValidateResize

ValSpec == ValInit /\ [][ValNext]_vars

\* --------------------------------------------------------- construction
\* VideoDownloader.__init__, lines 17-20: the URL is validated first, then
\* the option set is prepared; either step may raise ValidationError.
Construct ==
    /\ pc = "new"
    /\ LET v == validate_url(url)
           o == prepare_ydl_opts(quality, format_id, proxy, limit_speed, retries)
       IN
       IF v # None
       THEN /\ pc' = "failed" /\ raised' = Some("ValidationError")
            /\ ctor_msg' = v[1]
            /\ UNCHANGED ydl_opts
       ELSE IF o.err # None
            THEN /\ pc' = "failed" /\ raised' = Some("ValidationError")
                 /\ ctor_msg' = o.err[1]
                 /\ UNCHANGED ydl_opts
            ELSE /\ pc' = "ready" /\ raised' = None
                 /\ ydl_opts' = o.opts
                 /\ UNCHANGED ctor_msg
    /\ UNCHANGED <<url, retries, attempt, last_error, result, events>>
    /\ UNCHANGED <<quality, format_id, proxy, limit_speed, size_result>>
    /\ UNCHANGED <<procVars, restVars>>

\* _parse_size_string(limit_speed) called on its own.
CallParseSizeString ==
    /\ limit_speed # None
    /\ size_result = None
    /\ size_result' = Some(parse_size_string(limit_speed[1]))
    /\ UNCHANGED <<quality, format_id, proxy, limit_speed, ydl_opts, ctor_msg>>
    /\ UNCHANGED <<dlVars, procVars, restVars>>

UrlInit ==
    /\ url \in Urls
    /\ retries = DefaultRetries
    /\ pc = "new"
    /\ attempt = 0
    /\ last_error = None
    /\ result = None
    /\ raised = None
    /\ events = <<>>
    /\ CtorDefaults
    /\ ydl_opts = None
    /\ ProcIdle
    /\ RestIdle

UrlNext == Construct

UrlSpec == UrlInit /\ [][UrlNext]_vars

\* Rate limits handed to the constructor: padding, a sign, a numeral of up
\* to MaxNumLen characters and a unit, and two free texts.
SizePads == {<<>>, <<" ">>}
SizeSigns == {<<>>, <<"-">>}
NumChars == {"0", "1", "2", "5", "."}
SizeNumerals == UNION {[1..n -> NumChars] : n \in 0..MaxNumLen}
SizeUnits == {<<>>, <<"K">>, <<"M">>, <<"G">>, <<"k">>, <<"m">>, <<"g">>, <<"X">>}
SizeStrings ==
    {p \o sg \o n \o u \o p :
        p \in SizePads, sg \in SizeSigns, n \in SizeNumerals, u \in SizeUnits}
    \cup {<<"f", "a", "s", "t">>, <<"1", " ", "M">>}

CtorUrl == <<"https", ":", "//", "www.", "youtube.com", "/", "watch", "?", "v=1">>

SizeInit ==
    /\ url = CtorUrl
    /\ retries = DefaultRetries
    /\ pc = "new"
    /\ attempt = 0
    /\ last_error = None
    /\ result = None
    /\ raised = None
    /\ events = <<>>
    /\ quality = <<"best">>
    /\ format_id = None
    /\ proxy = None
    /\ limit_speed \in {None} \cup {Some(str) : str \in SizeStrings}
    /\ ydl_opts = None
    /\ ctor_msg = <<>>
    /\ size_result = None
    /\ ProcIdle
    /\ RestIdle

SizeNext == Construct \/ CallParseSizeString

SizeSpec == SizeInit /\ [][SizeNext]_vars

\* Qualities, format ids, proxies and rate limits handed to DownloadConfig.
QualityInputs ==
    { <<"best">>, <<"720", "p">>, <<"720">>, <<"1080", "p">>, <<"480">>,
      <<"720", "p", "p">>, <<"p">>, <<>> }
FormatIdInputs == { None, Some(<<>>), Some(<<"22">>), Some(<<"bestaudio">>) }
ProxyInputs == { None, Some(<<"socks5://127.0.0.1:1080">>) }
LimitInputs == { None, Some(<<>>), Some(<<"1", "M">>), Some(<<"1", "X">>) }

OptsInit ==
    /\ url = CtorUrl
    /\ retries \in 0..MaxRetries
    /\ pc = "new"
    /\ attempt = 0
    /\ last_error = None
    /\ result = None
    /\ raised = None
    /\ events = <<>>
    /\ quality \in {PostInit(q) : q \in QualityInputs}
    /\ format_id \in FormatIdInputs
    /\ proxy \in ProxyInputs
    /\ limit_speed \in LimitInputs
    /\ ydl_opts = None
    /\ ctor_msg = <<>>
    /\ size_result = None
    /\ ProcIdle
    /\ RestIdle

OptsNext == Construct

OptsSpec == OptsInit /\ [][OptsNext]_vars

\* download() runs on a constructed downloader, whose URL passed validation.
DlUrls ==
    {u \in {<<"https", ":", "//", "www.", "youtube.com", "/", "watch", "?", "v=1">>,
            <<"not_a_url">>} : validate_url(u) = None}

DlInit ==
    /\ url \in DlUrls
    /\ retries \in 0..MaxRetries
    /\ pc = "ready"
    /\ attempt = 0
    /\ last_error = None
    /\ result = None
    /\ raised = None
    /\ events = <<>>
    /\ CtorReady
    /\ ProcIdle
    /\ RestIdle

\* ------------------------------------------------------ _progress_hook
\* A progress event is the dict the engine hands to the hook: its status,
\* downloaded_bytes and total_bytes; total_bytes holds the value of the
\* key when the dict has it (None when the engine does not know the size)
\* and is KeyAbsent when the dict has no such key.
KeyAbsent == <<>>
KeyPresent(v) == <<v>>

ProgressEvent(status, done, total) ==
    [status |-> status, downloaded_bytes |-> done, total_bytes |-> total]

\* A quotient printed with format .1f, in tenths: n / d rounded to the
\* nearest tenth, a half going to the even neighbour.
Tenths(n, d) ==
    LET q == (10 * n) \div d
        r == (10 * n) % d
    IN IF 2 * r > d \/ (2 * r = d /\ q % 2 = 1) THEN q + 1 ELSE q

\* Variant: an unknown or empty total is reported as a byte count.
progress_hook_Guarded(d) ==
    IF d.status = "downloading"
    THEN IF d.total_bytes \notin {KeyAbsent, KeyPresent(None), KeyPresent(Some(0))}
         THEN [err |-> None,
               out |-> <<"Download progress: ",
                         Tenths(d.downloaded_bytes * 100, d.total_bytes[1][1]), "%">>]
         ELSE [err |-> None,
               out |-> <<"Downloaded: ", Tenths(d.downloaded_bytes, 1048576), "MB">>]
    ELSE IF d.status = "finished"
         THEN [err |-> None, out |-> <<"Download completed, processing file...">>]
         ELSE [err |-> None, out |-> <<>>]

\* _progress_hook, lines 198-207: what it prints, or the exception of the
\* division of line 202.
progress_hook(d) ==
    IF d.status = "downloading"
    THEN IF d.total_bytes # KeyAbsent
         THEN IF d.total_bytes[1] = None
              THEN [err |-> Some("TypeError"), out |-> <<>>]
              ELSE IF d.total_bytes[1][1] = 0
                   THEN [err |-> Some("ZeroDivisionError"), out |-> <<>>]
                   ELSE [err |-> None,
                         out |-> <<"Download progress: ",
                                   Tenths(d.downloaded_bytes * 100, d.total_bytes[1][1]),
                                   "%">>]
         ELSE [err |-> None,
               out |-> <<"Downloaded: ", Tenths(d.downloaded_bytes, 1048576), "MB">>]
    ELSE IF d.status = "finished"
         THEN [err |-> None, out |-> <<"Download completed, processing file...">>]
         ELSE [err |-> None, out |-> <<>>]

\* The engine calls every hook of 'progress_hooks' on each event, in
\* order, until one raises: the events delivered, the text printed and
\* the exception.
RECURSIVE RunHooks(_)
RunHooks(evs) ==
    IF evs = <<>> THEN [delivered |-> <<>>, printed |-> <<>>, err |-> None]
    ELSE LET h == progress_hook(Head(evs)) IN
         IF h.err # None
         THEN [delivered |-> <<Head(evs)>>, printed |-> <<>>, err |-> h.err]
         ELSE LET rest == RunHooks(Tail(evs)) IN
              [delivered |-> <<Head(evs)>> \o rest.delivered,
               printed |-> h.out \o rest.printed, err |-> rest.err]

\* str(e) of the exception the division raised.
HookErrorMsg(class) ==
    IF class = "ZeroDivisionError" THEN <<"division by zero">>
    ELSE <<"unsupported operand type(s) for /: 'int' and 'NoneType'">>

\* What the try block of download() meets when the engine, on its way to
\* the outcome o, delivers the events evs: an exception of the hook leaves
\* extract_info like any other exception, unless the engine contains it.
HookedOutcome(o, run, contained) ==
    IF run.err # None /\ ~contained
    THEN [kind |-> "Exception", msg |-> HookErrorMsg(run.err[1]), info |-> NoInfo,
          file |-> NoFile]
    ELSE o

ProgressEvents ==
    {ProgressEvent("downloading", done, total) :
        done \in {512},
        total \in {KeyAbsent, KeyPresent(None), KeyPresent(Some(0)),
                   KeyPresent(Some(1024))}}
    \cup {ProgressEvent("finished", 512, KeyAbsent)}
ProgressSeqs == UNION {[1..n -> ProgressEvents] : n \in 0..MaxEvents}

\* The outcomes the engine may have in store for an attempt that reports
\* its progress, and the retry budgets tried.
HookOutcomes ==
    {o \in Outcomes : /\ o.msg # <<"First try">>
                      /\ o.kind = "info" =>
                            /\ o.info.title # None
                            /\ o.file.exists => o.file.content # <<>>}
HookRetries == {0, 1, 2}

\* Lines 108-161 with the hook installed by line 79: one attempt, during
\* which the engine reports its progress.  An engine that rejects the URL
\* downloads nothing and reports nothing.
HookedAttempt ==
    /\ pc = "loop" /\ attempt < retries
    /\ \E o \in HookOutcomes :
       \E evs \in IF IsUnsupportedPlatform(o) \/ ydl_opts = None
                        \/ ydl_opts[1].progress_hooks = <<>>
                   THEN {<<>>} ELSE ProgressSeqs :
       LET run == RunHooks(evs) IN
       \E contained \in IF run.err = None THEN {FALSE} ELSE BOOLEAN :
       LET e == HookedOutcome(o, run, contained) IN
        /\ hook_events' = run.delivered
        /\ hook_printed' = run.printed
        /\ hook_error' = run.err
        /\ IF IsSuccess(e)
           THEN /\ events' = Append(events, CallEvent(attempt, o))
                /\ result' = Some(SuccessResult(e))
                /\ pc' = "done"
                /\ UNCHANGED <<attempt, last_error>>
           ELSE IF IsUnsupportedPlatform(e)
           THEN /\ events' = Append(events, CallEvent(attempt, o))
                /\ result' = Some(FailureResult(Some(UnsupportedPlatformMsg(url))))
                /\ pc' = "done"
                /\ UNCHANGED <<attempt, last_error>>
           ELSE /\ last_error' = RecordError(last_error, e)
                /\ events' =
                     IF ShouldSleep(attempt, retries)
                     THEN events \o <<CallEvent(attempt, o),
                                      SleepEvent(attempt, BackoffSeconds(attempt))>>
                     ELSE Append(events, CallEvent(attempt, o))
                /\ attempt' = attempt + 1
                /\ UNCHANGED <<pc, result>>
    /\ UNCHANGED <<url, retries, raised>>
    /\ UNCHANGED <<ctorVars, procVars, valVars, timeVars, subVars, rotVars>>

HookInit ==
    /\ url \in DlUrls
    /\ retries \in HookRetries
    /\ pc = "ready"
    /\ attempt = 0
    /\ last_error = None
    /\ result = None
    /\ raised = None
    /\ events = <<>>
    /\ CtorReady
    /\ ProcIdle
    /\ RestIdle

HookNext == DownloadStart \/ HookedAttempt \/ Exhausted

HookSpec == HookInit /\ [][HookNext]_vars

Init == DlInit

Next == DownloadStart \/ AttemptSuccess \/ AttemptUnsupported
        \/ AttemptFailed \/ Exhausted

Spec == Init /\ [][Next]_vars

\* download() runs to completion: the loop body and the sleep are finite.
FairSpec == Spec /\ WF_vars(Next)

\* ======================================================================
\* Properties of download()
\* ======================================================================
CallIdx == {i \in DOMAIN events : events[i].type = "call"}
NumCalls == Cardinality(CallIdx)

\* The conditions as the specification words them.
UnsupportedCondition(o) ==
    \/ o.kind = "UnsupportedError"
    \/ o.kind = "DownloadError" /\ \E k \in DOMAIN o.msg : o.msg[k] = "Unsupported URL"
Succeeds(o) == o.kind = "info" /\ o.file.exists
MissingFile(o) == o.kind = "info" /\ ~o.file.exists
GenericFailure(o) == ~Succeeds(o) /\ ~UnsupportedCondition(o)
FailureMessage(o) ==
    IF MissingFile(o)
    THEN <<"Download completed but file not found: ">> \o o.file.path
    ELSE o.msg

SleepFollows(i) == i < Len(events) /\ events[i + 1].type = "sleep"
LastCall(i) == \A j \in CallIdx : j <= i

RECURSIVE SumSecs(_)
SumSecs(es) == IF es = <<>> THEN 0 ELSE Head(es).secs + SumSecs(Tail(es))

RECURSIVE SumPow2(_)
SumPow2(n) == IF n < 0 THEN 0 ELSE 2 ^ n + SumPow2(n - 1)

\* C1: an attempt that meets the unsupported-platform condition is the last
\* thing download() does: it returns success=false with a descriptive error,
\* no engine invocation and no sleep follows; when it is the first attempt
\* the engine was invoked exactly once.
C1_UnsupportedNeverRetried ==
    \A i \in DOMAIN events :
        (events[i].type = "call" /\ UnsupportedCondition(events[i].outcome)) =>
            /\ i = Len(events)
            /\ pc = "done" /\ raised = None
            /\ result # None
            /\ result[1].success = FALSE
            /\ result[1].error # None
            /\ \E k \in DOMAIN result[1].error[1] :
                   result[1].error[1][k] = "Platform not supported for URL: "
            /\ (events[i].attempt = 0 => NumCalls = 1 /\ Len(events) = 1)

C1_Witness ==
    /\ pc = "done" /\ retries = MaxRetries /\ Len(events) = 1
    /\ events[1].outcome.kind = "DownloadError"
    /\ UnsupportedCondition(events[1].outcome)

\* C2: when all N = retries attempts fail generically the result is
\* success=false, error = message of the N-th failure, filepath=None,
\* metadata=None, filesize=0, checksum=None.
C2_ExhaustedResult ==
    (pc = "done" /\ NumCalls = retries
        /\ \A i \in CallIdx : GenericFailure(events[i].outcome)) =>
        /\ result # None
        /\ result[1].success = FALSE
        /\ result[1].filepath = None
        /\ result[1].metadata = None
        /\ result[1].filesize = 0
        /\ result[1].checksum = None
        /\ (retries >= 1 =>
              result[1].error = Some(FailureMessage(events[Len(events)].outcome)))

C2_Witness ==
    /\ pc = "done" /\ retries = MaxRetries /\ NumCalls = retries
    /\ \A i \in CallIdx : GenericFailure(events[i].outcome)
    /\ \E i, j \in CallIdx :
           FailureMessage(events[i].outcome) # FailureMessage(events[j].outcome)

\* C3: after a generically failed attempt i the engine sleeps exactly 2^i
\* seconds iff i < retries-1; no sleep follows the final attempt, a success
\* or an unsupported-platform outcome; N persistent generic failures sleep
\* sum(2^i for i in 0..N-2) seconds in total.
C3_Backoff ==
    /\ \A i \in DOMAIN events :
         events[i].type = "call" =>
            IF GenericFailure(events[i].outcome) /\ events[i].attempt < retries - 1
            THEN /\ SleepFollows(i)
                 /\ events[i + 1].secs = 2 ^ events[i].attempt
                 /\ ~SleepFollows(i + 1)
            ELSE ~SleepFollows(i)
    /\ \A i \in DOMAIN events :
         events[i].type = "sleep" => i > 1 /\ events[i - 1].type = "call"
    /\ (pc = "done" /\ NumCalls = retries
          /\ \A i \in CallIdx : GenericFailure(events[i].outcome))
        => SumSecs(events) = SumPow2(retries - 2)

C3_Witness ==
    /\ pc = "done" /\ retries = MaxRetries /\ NumCalls = retries
    /\ \A i \in CallIdx : GenericFailure(events[i].outcome)
    /\ SumSecs(events) = 3

\* C4: download() stops at the first successful attempt k: the engine was
\* invoked exactly k+1 times, the k earlier attempts failed generically, and
\* the result is success=true with that attempt's filepath, metadata,
\* filesize and checksum and error=None; nothing follows a success.
C4_StopsAtFirstSuccess ==
    \A i \in DOMAIN events :
        (events[i].type = "call" /\ Succeeds(events[i].outcome)) =>
            LET o == events[i].outcome IN
            /\ i = Len(events)
            /\ pc = "done" /\ raised = None
            /\ events[i].attempt < retries
            /\ NumCalls = events[i].attempt + 1
            /\ \A j \in CallIdx : j < i => GenericFailure(events[j].outcome)
            /\ result =
                 Some([success |-> TRUE,
                       filepath |-> Some(o.file.path),
                       error |-> None,
                       metadata |-> Some([title |-> IF o.info.title = None THEN ""
                                                    ELSE o.info.title[1],
                                          duration |-> o.info.duration]),
                       filesize |-> Len(o.file.content),
                       checksum |-> Some(<<"sha256">> \o o.file.content)])

C4_Witness ==
    /\ pc = "done" /\ NumCalls = 2 /\ retries = MaxRetries
    /\ events[1].outcome.kind = "Exception"
    /\ Succeeds(events[Len(events)].outcome)
    /\ events[Len(events)].outcome.file.content # <<>>
    /\ result # None /\ result[1].success

\* C5: every returned DownloadResult has exactly one group populated:
\* filepath+metadata+checksum present and error absent (success), or error
\* present and filepath, metadata, checksum absent (failure).
C5_ExactlyOneGroup ==
    (pc = "done" /\ result # None) =>
        LET r == result[1] IN
        \/ /\ r.success
           /\ r.filepath # None /\ r.metadata # None /\ r.checksum # None
           /\ r.error = None
        \/ /\ ~r.success
           /\ r.error # None
           /\ r.filepath = None /\ r.metadata = None /\ r.checksum = None

\* C7: download() never raises to its caller, invokes the engine at most
\* `retries` times, and terminates by returning a DownloadResult.
C7_ReturnsWithinRetries ==
    /\ [](raised = None /\ NumCalls <= retries)
    /\ <>(pc = "done" /\ result # None)

C7_Witness ==
    /\ pc = "done" /\ result # None /\ raised = None
    /\ retries = MaxRetries /\ NumCalls = retries
    /\ \E i \in CallIdx : events[i].outcome.kind = "Exception"
    /\ \E i \in CallIdx : events[i].outcome.kind = "post_error"

\* C8: an attempt whose file is missing after reported success is a
\* retryable failure: its DownloadError message becomes the last error, the
\* backoff of a generic failure applies, and download() goes on to the next
\* attempt if one remains instead of returning.
C8_MissingFileRetried ==
    \A i \in DOMAIN events :
        (events[i].type = "call" /\ MissingFile(events[i].outcome)) =>
            LET a == events[i].attempt IN
            /\ raised = None
            /\ IF a < retries - 1
               THEN SleepFollows(i) /\ events[i + 1].secs = 2 ^ a
               ELSE ~SleepFollows(i)
            /\ LastCall(i) =>
                 /\ last_error =
                      Some(<<"Download completed but file not found: ">>
                           \o events[i].outcome.file.path)
                 /\ \/ pc = "loop" /\ attempt = a + 1
                    \/ /\ pc = "done" /\ a = retries - 1
                       /\ result # None /\ result[1].success = FALSE
                       /\ result[1].error = last_error

C8_Witness ==
    /\ retries = MaxRetries /\ NumCalls = 2
    /\ MissingFile(events[1].outcome)
    /\ events[2].type = "sleep"
    /\ Succeeds(events[Len(events)].outcome)

\* ======================================================================
\* Properties of construction
\* ======================================================================
AllowlistedDomains == {"youtube.com", "youtu.be", "vimeo.com", "dailymotion.com"}

\* ^https?://(?:www\.)?(domain)/\S+
Allowlisted(u) ==
    /\ Len(u) >= 3
    /\ u[1] \in {"http", "https"} /\ u[2] = ":" /\ u[3] = "//"
    /\ LET k == IF Len(u) >= 4 /\ u[4] = "www." THEN 5 ELSE 4 IN
       /\ Len(u) >= k + 2
       /\ u[k] \in AllowlistedDomains
       /\ u[k + 1] = "/"

\* C6: construction of the downloader fails with ValidationError for every
\* URL outside the allowlisted video-platform domains.
C6_NonAllowlistedRejected ==
    (pc # "new" /\ ~Allowlisted(url)) =>
        (pc = "failed" /\ raised = Some("ValidationError"))

\* ======================================================================
\* Properties of the video processor
\* ======================================================================
\* {stem}_processed{suffix}, {stem}_processed_1{suffix}, ...
C9_Candidate(k) ==
    IF k = 0
    THEN PathStem(input) \o <<"_processed">> \o OutputSuffix(config, input)
    ELSE PathStem(input) \o <<"_processed_", ToString(k)>>
                         \o OutputSuffix(config, input)

\* C9: _get_output_path returns the first name of the sequence
\* {stem}_processed{suffix}, {stem}_processed_1{suffix}, ... that does not
\* exist; the returned name does not exist at return time; the search ends.
C9_FirstFreeName ==
    /\ [](pv_pc = "returned" =>
            \E k \in 0..Cardinality(files) :
                /\ pv_result = Some(C9_Candidate(k))
                /\ C9_Candidate(k) \notin files
                /\ \A j \in 0..(k - 1) : C9_Candidate(j) \in files)
    /\ <>(pv_pc = "returned")

C9_Witness ==
    /\ pv_pc = "returned" /\ op = "_get_output_path"
    /\ C9_Candidate(0) \in files /\ C9_Candidate(1) \in files
    /\ pv_result = Some(C9_Candidate(2))

\* The stage names of the chain in the order crop, resize, rotate, fps,
\* HDR to SDR, one per configured field.
C10_Expected(cfg) ==
    (IF cfg.crop # None THEN <<"crop">> ELSE <<>>)
    \o (IF cfg.resize # None THEN <<"scale">> ELSE <<>>)
    \o (IF cfg.rotate # None THEN <<"rotate">> ELSE <<>>)
    \o (IF cfg.fps # None THEN <<"fps">> ELSE <<>>)
    \o (IF cfg.hdr_to_sdr
        THEN <<"zscale t=linear npl=100", "format pix_fmt=gbrp", "zscale p=bt709",
               "tonemap tonemap=hable", "zscale t=bt709 m=bt709 r=tv">>
        ELSE <<>>)

\* C10: process_video applies exactly the configured stages in the order
\* crop, resize, rotate, fps, HDR to SDR; none (rotate in particular) is
\* skipped or reordered.
C10_ConfiguredStagesApplied ==
    (op = "process_video" /\ pv_pc = "returned") =>
        [i \in DOMAIN stream |-> stream[i].name] = C10_Expected(config)

\* The output arguments the configuration asks for: one per set field.
C11_Expected(cfg) ==
    (IF cfg.video_codec # None THEN {<<"vcodec", cfg.video_codec[1]>>} ELSE {})
    \cup (IF cfg.audio_codec # None THEN {<<"acodec", cfg.audio_codec[1]>>} ELSE {})
    \cup (IF cfg.video_bitrate # None THEN {<<"b:v", cfg.video_bitrate[1]>>} ELSE {})
    \cup (IF cfg.audio_bitrate # None THEN {<<"b:a", cfg.audio_bitrate[1]>>} ELSE {})

\* C11: the output arguments handed to the transcoding engine contain the
\* video codec, the audio codec, the video bitrate and the audio bitrate,
\* each exactly when the field is set and with the configured value.
C11_OutputArgsMirrorConfig ==
    (op = "process_video" /\ run_count >= 1) =>
        output_args = C11_Expected(config)

\* ----------------------------------------------------------------------
\* The parts of s between the separator tokens, by position.
C19_Parts(s, sep) ==
    LET idx == {i \in DOMAIN s : s[i] = sep}
        n == Cardinality(idx)
        pos(j) == IF j = 0 THEN 0
                  ELSE IF j = n + 1 THEN Len(s) + 1
                  ELSE CHOOSE i \in idx : Cardinality({k \in idx : k < i}) = j - 1
    IN [j \in 1..(n + 1) |-> SubSeq(s, pos(j - 1) + 1, pos(j) - 1)]

\* The integers the arguments can spell.
C19_IntValue ==
    [p \in { <<"1280">>, <<"720">>, <<"0">>, <<"-", "720">>, <<"640">>, <<"360">> } |->
        CASE p = <<"1280">> -> 1280 [] p = <<"720">> -> 720 [] p = <<"0">> -> 0
          [] p = <<"-", "720">> -> 0 - 720 [] p = <<"640">> -> 640
          [] p = <<"360">> -> 360]

C19_AllInts(parts) == \A k \in DOMAIN parts : parts[k] \in DOMAIN C19_IntValue
C19_Values(parts) == [k \in DOMAIN parts |-> C19_IntValue[parts[k]]]

\* C19: _validate_crop returns (w, h, x, y) for four colon-separated
\* integers, fails with "Invalid crop format" when the arity is not four and
\* with "Invalid crop values" when it is four but a part is no integer;
\* _validate_resize returns (w, h) for WxH, fails with "Invalid resize
\* format" when no 'x' is present and with "Invalid resize values" when it
\* is present but the parts are not two integers.
C19_ValidatorsSeparateStructureFromValues ==
    /\ v_op = "_validate_crop" =>
          LET parts == C19_Parts(vstr, ":") IN
          v_result = Some(
            IF Len(parts) # 4
            THEN [err |-> Some("Invalid crop format"), val |-> <<>>]
            ELSE IF C19_AllInts(parts)
                 THEN [err |-> None, val |-> C19_Values(parts)]
                 ELSE [err |-> Some("Invalid crop values"), val |-> <<>>])
    /\ v_op = "_validate_resize" =>
          LET parts == C19_Parts(vstr, "x") IN
          v_result = Some(
            IF Len(parts) = 1
            THEN [err |-> Some("Invalid resize format"), val |-> <<>>]
            ELSE IF Len(parts) = 2 /\ C19_AllInts(parts)
                 THEN [err |-> None, val |-> C19_Values(parts)]
                 ELSE [err |-> Some("Invalid resize values"), val |-> <<>>])

C19_Witness ==
    /\ v_op = "_validate_resize"
    /\ vstr = <<"1280", "x", "-", "720", "x", "0">>
    /\ v_result = Some([err |-> Some("Invalid resize values"), val |-> <<>>])

\* ----------------------------------------------------------------------
\* A configured crop / resize that is not four colon-separated integers /
\* not two integers around an 'x'.
C20_InvalidCrop ==
    /\ config.crop # None
    /\ LET parts == C19_Parts(config.crop[1], ":") IN
       ~(Len(parts) = 4 /\ C19_AllInts(parts))
C20_InvalidResize ==
    /\ config.resize # None
    /\ LET parts == C19_Parts(config.resize[1], "x") IN
       ~(Len(parts) = 2 /\ C19_AllInts(parts))

C20_Finished == op = "process_video" /\ pv_pc \in {"returned", "raised"}

C16_Trimmed(str) ==
    LET ix == {i \in DOMAIN str : str[i] # " "} IN
    IF ix = {} THEN <<>>
    ELSE SubSeq(str, CHOOSE i \in ix : \A j \in ix : i <= j,
                     CHOOSE i \in ix : \A j \in ix : j <= i)
C16_Exp(c) ==
    CASE c \in {"K", "k"} -> 1 [] c \in {"M", "m"} -> 2 [] c \in {"G", "g"} -> 3
      [] OTHER -> 0
C16_HasUnit(str) ==
    C16_Trimmed(str) # <<>> /\ C16_Exp(C16_Trimmed(str)[Len(C16_Trimmed(str))]) > 0
C16_UnitExp(str) ==
    IF C16_HasUnit(str) THEN C16_Exp(C16_Trimmed(str)[Len(C16_Trimmed(str))]) ELSE 0
C16_Numeral(str) ==
    LET t == C16_Trimmed(str) IN
    IF C16_HasUnit(str) THEN SubSeq(t, 1, Len(t) - 1) ELSE t
C16_IsNumber(num) ==
    /\ \A i \in DOMAIN num : num[i] \in DigitChars \cup {"."}
    /\ \E i \in DOMAIN num : num[i] \in DigitChars
    /\ \A i, j \in DOMAIN num : (num[i] = "." /\ num[j] = ".") => i = j
C16_Valid(str) == C16_IsNumber(C16_Numeral(str))

\* The number is C16_Num / 10 ^ C16_Frac.
RECURSIVE C16_Acc(_, _)
C16_Acc(num, acc) ==
    IF num = <<>> THEN acc
    ELSE IF Head(num) = "." THEN C16_Acc(Tail(num), acc)
         ELSE C16_Acc(Tail(num), 10 * acc + DigitVal(Head(num)))
C16_Num(num) == C16_Acc(num, 0)
C16_Frac(num) ==
    IF \E i \in DOMAIN num : num[i] = "."
    THEN Len(num) - (CHOOSE i \in DOMAIN num : num[i] = ".")
    ELSE 0

\* Arithmetic on limb sequences: ls * m + carry, and the order.
RECURSIVE C16_MulAdd(_, _, _)
C16_MulAdd(ls, m, carry) ==
    IF ls = <<>> THEN ToLimbs(carry)
    ELSE LET last == ls[Len(ls)] * m + carry IN
         C16_MulAdd(SubSeq(ls, 1, Len(ls) - 1), m, last \div Limb)
             \o <<last % Limb>>
C16_Leq(a, b) ==
    \/ Len(a) < Len(b)
    \/ /\ Len(a) = Len(b)
       /\ \/ a = b
          \/ \E i \in DOMAIN a : a[i] < b[i] /\ \A j \in 1..(i - 1) : a[j] = b[j]

\* r = trunc(n * 1024^k / 10^f):  r * 10^f <= n * 1024^k <= r * 10^f + 10^f - 1
C16_IsTrunc(r, n, f, k) ==
    LET x == Normalize(ToLimbs(n) \o Zeros(k)) IN
    /\ C16_Leq(Normalize(C16_MulAdd(r, 10 ^ f, 0)), x)
    /\ C16_Leq(x, Normalize(C16_MulAdd(r, 10 ^ f, 10 ^ f - 1)))

\* Numerals the parsed one is compared with, and the order of two numerals.
C16_RefNumerals ==
    { <<"0">>, <<".", "5">>, <<"1">>, <<"1", ".", "5">>, <<"2">>, <<"2", ".", "5">>,
      <<"1", "2">>, <<"5", "0", "0">>, <<"0", ".", "2", "5">> }
C16_NumLeq(a, b) ==
    C16_Num(a) * 10 ^ C16_Frac(b) <= C16_Num(b) * 10 ^ C16_Frac(a)
C16_UnitChar(k) == CASE k = 1 -> <<"K">> [] k = 2 -> <<"M">> [] k = 3 -> <<"G">>
                     [] OTHER -> <<>>

C16_Exact(str, limbs) ==
    limit_speed = Some(str) => size_result[1].val = limbs

\* C16: for every valid size string <number>[K|M|G] (unit in either case,
\* surrounding blanks ignored) _parse_size_string returns
\* trunc(number * multiplier) with multiplier 1024, 1024^2, 1024^3 for K, M,
\* G and 1 without unit; the result is monotonic in the number; 1M is
\* 1048576, 500K is 512000, 1.5M is 1572864 and 2G is 2147483648; the
\* constructor stores the same value as the rate limit.
C16_SizeParser ==
    (limit_speed # None /\ C16_Valid(limit_speed[1])) =>
        LET num == C16_Numeral(limit_speed[1])
            k == C16_UnitExp(limit_speed[1])
        IN
        /\ size_result # None =>
              /\ size_result[1].err = None
              /\ C16_IsTrunc(size_result[1].val, C16_Num(num), C16_Frac(num), k)
              /\ \A ref \in C16_RefNumerals :
                    LET other == parse_size_string(ref \o C16_UnitChar(k)).val IN
                    /\ C16_NumLeq(ref, num) => C16_Leq(other, size_result[1].val)
                    /\ C16_NumLeq(num, ref) => C16_Leq(size_result[1].val, other)
              /\ C16_Exact(<<"1", "M">>, <<1, 0, 0>>)
              /\ C16_Exact(<<"5", "0", "0", "K">>, <<500, 0>>)
              /\ C16_Exact(<<"1", ".", "5", "M">>, <<1, 512, 0>>)
              /\ C16_Exact(<<"2", "G">>, <<2, 0, 0, 0>>)
        /\ pc # "new" =>
              /\ pc = "ready"
              /\ ydl_opts # None /\ ydl_opts[1].ratelimit # None
              /\ C16_IsTrunc(ydl_opts[1].ratelimit[1], C16_Num(num),
                             C16_Frac(num), k)

C16_Witness ==
    /\ limit_speed = Some(<<" ", "1", ".", "5", "m", " ">>)
    /\ size_result = Some([err |-> None, val |-> <<1, 512, 0>>])
    /\ pc = "ready"
    /\ ydl_opts[1].ratelimit = Some(<<1, 512, 0>>)

\* What C17 asks of a rate limit that the grammar rejects.
C17_Rejected ==
    /\ size_result # None => size_result[1].err # None
    /\ pc # "new" =>
          /\ pc = "failed"
          /\ raised = Some("ValidationError")
          /\ Len(ctor_msg) >= 1 /\ ctor_msg[1] = "Invalid rate limit: "
          /\ ydl_opts = None
          /\ events = <<>>

\* C17 as stated: for every rate-limit string that does not match the size
\* grammar (bad unit, missing number, several decimal points, a sign, free
\* text) parsing fails with ValidationError and construction fails with a
\* rate-limit ValidationError, so no option set and no download results.
C17_InvalidRateLimitRejected ==
    (limit_speed # None /\ ~C16_Valid(limit_speed[1])) => C17_Rejected

\* C17, amended: the same for every non-empty rate-limit string; the empty
\* string is treated as no rate limit by the constructor.
C17_NonEmptyInvalidRateLimitRejected ==
    (limit_speed # None /\ limit_speed[1] # <<>> /\ ~C16_Valid(limit_speed[1]))
        => C17_Rejected

C17_Witness ==
    /\ limit_speed = Some(<<"1", ".", ".", "M">>)
    /\ size_result # None /\ size_result[1].err # None
    /\ pc = "failed"
    /\ ctor_msg[1] = "Invalid rate limit: "

\* The quality without its trailing 'p' characters.
C18_Cap(q) ==
    LET ix == {i \in DOMAIN q : q[i] # "p"} IN
    IF ix = {} THEN <<>> ELSE SubSeq(q, 1, CHOOSE i \in ix : \A j \in ix : j <= i)

C18_FormatIdPresent == format_id # None /\ format_id[1] # <<>>

\* C18: a present (non-empty) format id is the format selector and the
\* quality is not used; otherwise quality "best" gives the combined
\* mp4/h264 selector and any other quality gives the height-capped selector
\* whose cap is the quality with its trailing 'p' stripped.
C18_FormatSelector ==
    pc = "ready" =>
        ydl_opts[1].format =
            IF C18_FormatIdPresent THEN format_id[1]
            ELSE IF quality = <<"best">>
                 THEN <<"bestvideo[ext=mp4][vcodec^=avc]+bestaudio[ext=m4a]/best[ext=mp4][vcodec^=avc]/best">>
                 ELSE <<"bestvideo[height<=">> \o C18_Cap(quality)
                      \o <<"][ext=mp4][vcodec^=avc]+bestaudio[ext=m4a]/best[height<=">>
                      \o C18_Cap(quality) \o <<"][ext=mp4][vcodec^=avc]/best">>

C18_Witness ==
    /\ pc = "ready"
    /\ format_id = Some(<<"22">>)
    /\ quality = <<"720", "p">>
    /\ ydl_opts[1].format = <<"22">>

\* ======================================================================
\* Properties of the subtitle timing adjustment
\* ======================================================================
\* round(h / 2): the nearest integer, the even one of two equally near.
C14_Round(h) ==
    CHOOSE r \in (0 - MaxOffset)..MaxOffset :
        /\ 2 * r - h \in {0 - 1, 0, 1}
        /\ 2 * r # h => r % 2 = 0

C14_Ms(t) == t.hours * 3600000 + t.minutes * 60000 + t.seconds * 1000
             + t.milliseconds
C14_Max0(x) == IF x < 0 THEN 0 ELSE x
C14_WellFormed(t) ==
    /\ t.hours >= 0 /\ t.minutes \in 0..59 /\ t.seconds \in 0..59
    /\ t.milliseconds \in 0..999

\* C14: _adjust_subtitle_timing maps every cue's start to
\* max(0, start_ms + round(offset * 1000)) and its end likewise and
\* independently; both are non-negative, and a cue with start <= end keeps
\* start <= end.
C14_ShiftClamped ==
    shifts # <<>> =>
        /\ Len(subs) = Len(prev_subs)
        /\ \A i \in DOMAIN subs :
              LET off == C14_Round(shifts[Len(shifts)]) IN
              /\ C14_WellFormed(subs[i].start) /\ C14_WellFormed(subs[i].end)
              /\ C14_Ms(subs[i].start) = C14_Max0(C14_Ms(prev_subs[i].start) + off)
              /\ C14_Ms(subs[i].end) = C14_Max0(C14_Ms(prev_subs[i].end) + off)
              /\ C14_Ms(subs[i].start) >= 0 /\ C14_Ms(subs[i].end) >= 0
              /\ C14_Ms(prev_subs[i].start) <= C14_Ms(prev_subs[i].end)
                    => C14_Ms(subs[i].start) <= C14_Ms(subs[i].end)

C14_Witness ==
    /\ shifts = <<0 - 3>>
    /\ orig_subs = << [start |-> [hours |-> 0, minutes |-> 0, seconds |-> 0,
                                  milliseconds |-> 0],
                       end |-> [hours |-> 0, minutes |-> 59, seconds |-> 59,
                                milliseconds |-> 999]] >>
    /\ subs = << [start |-> [hours |-> 0, minutes |-> 0, seconds |-> 0,
                             milliseconds |-> 0],
                  end |-> [hours |-> 0, minutes |-> 59, seconds |-> 59,
                           milliseconds |-> 997]] >>

\* C15: shifting a file by +X and then by -X returns every cue's start and
\* end to the original, except the endpoints that the first shift floored
\* at zero.
C15_RoundTrip ==
    (Len(shifts) = 2 /\ shifts[2] = 0 - shifts[1]) =>
        \A i \in DOMAIN orig_subs :
            /\ C14_Ms(orig_subs[i].start) + C14_Round(shifts[1]) >= 0
                  => subs[i].start = orig_subs[i].start
            /\ C14_Ms(orig_subs[i].end) + C14_Round(shifts[1]) >= 0
                  => subs[i].end = orig_subs[i].end

C15_Witness ==
    /\ shifts = <<0 - 3, 3>>
    /\ Len(orig_subs) = 2
    /\ C14_Ms(orig_subs[1].start) = 2 /\ C14_Ms(orig_subs[1].end) = 3599999
    /\ C14_Ms(orig_subs[2].start) = 0
    /\ subs[1] = orig_subs[1]
    /\ C14_Ms(subs[2].start) = 2

\* ======================================================================
\* Properties of the subtitle downloader
\* ======================================================================
\* The text of the collected files in collection order, each followed by
\* a blank line unless it ends with one.
RECURSIVE C12_Concat(_)
C12_Concat(fls) ==
    IF fls = <<>> THEN <<>>
    ELSE LET t == sfs[Head(fls)][1].text
             n == Len(t)
         IN t \o (IF n >= 2 /\ SubSeq(t, n - 1, n) = <<"\n", "\n">>
                  THEN <<>> ELSE <<"\n", "\n">>)
              \o C12_Concat(Tail(fls))

\* C12: download() returns exactly the merged file, holding the text of
\* every collected file in collection order with blank-line separators,
\* when merging is requested and more than one file was collected;
\* otherwise it returns the collected paths and writes no merged file.
C12_MergeOrIndividualPaths ==
    (s_op = "download" /\ s_pc = "returned") =>
        IF sub_config.merge_subtitles /\ Len(s_collected) > 1
        THEN /\ s_result = <<MergedName>>
             /\ sfs[MergedName] # None
             /\ sfs[MergedName][1].text = C12_Concat(s_collected)
        ELSE /\ s_result = s_collected
             /\ sfs[MergedName] = None

C12_Witness ==
    /\ s_op = "download" /\ s_pc = "returned"
    /\ sub_config.merge_subtitles
    /\ s_collected = << <<"T", ".en", ".srt">>, <<"T", ".es", ".vtt">> >>
    /\ s_result = <<MergedName>>
    /\ sfs[MergedName][1].text =
         SrtText("old") \o VttText(".es") \o <<"\n", "\n">>

\* The lines of the converted file, position by position.
C13_Blank(line) == \A i \in DOMAIN line : line[i] = " "
C13_Timing(line) == \E i \in DOMAIN line : line[i] = " --> "
C13_Body(text) ==
    LET ls == C19_Parts(text, "\n")
        bl == {i \in DOMAIN ls : C13_Blank(ls[i])}
    IN IF bl = {} THEN <<>>
       ELSE SubSeq(ls, (CHOOSE i \in bl : \A j \in bl : i <= j) + 1, Len(ls))
C13_Cues(body, j) == Cardinality({i \in 1..j : C13_Timing(body[i])})
C13_Applies ==
    /\ s_op = "_convert_to_srt"
    /\ s_arg = <<"U", ".vtt">>
    /\ sfs[s_arg][1].enc = "utf-8"
    /\ \E i \in DOMAIN sfs[s_arg][1].text : sfs[s_arg][1].text[i] = "WEBVTT"

\* C13: converting a VTT file skips the header up to the first blank line;
\* the k-th timing line is emitted with every '.' turned into ',' right
\* after a line holding the counter k (from 1, one more per cue); every
\* other line is emitted verbatim, in the original order.
C13_VttToSrt ==
    C13_Applies =>
        LET body == C13_Body(sfs[s_arg][1].text)
            n == Len(body)
            out == sfs[<<"U", ".srt">>]
        IN
        /\ s_result = << <<"U", ".srt">> >>
        /\ out # None
        /\ IF n = 0 THEN out[1].text = <<>>
           ELSE LET ol == C19_Parts(out[1].text, "\n") IN
                /\ Len(ol) = n + C13_Cues(body, n)
                /\ \A j \in 1..n :
                      LET at == j + C13_Cues(body, j) IN
                      IF C13_Timing(body[j])
                      THEN /\ ol[at - 1] = <<ToString(C13_Cues(body, j))>>
                           /\ ol[at] = [i \in DOMAIN body[j] |->
                                          IF body[j][i] = "." THEN ","
                                          ELSE body[j][i]]
                      ELSE ol[at] = body[j]

C13_Witness ==
    /\ C13_Applies
    /\ sfs[s_arg][1].text =
         << "WEBVTT", "\n", "\n",
            "00:00:01", ".", "000", " --> ", "00:00:04", ".", "000", "\n",
            "Hello", ".", "\n",
            "00:00:01", ".", "000", " --> ", "00:00:04", ".", "000" >>
    /\ sfs[<<"U", ".srt">>][1].text =
         << "1", "\n",
            "00:00:01", ",", "000", " --> ", "00:00:04", ",", "000", "\n",
            "Hello", ".", "\n",
            "2", "\n",
            "00:00:01", ",", "000", " --> ", "00:00:04", ",", "000" >>

\* The argument of _convert_to_srt is not convertible: it has the .srt
\* suffix, or it cannot be decoded as UTF-8, or its text lacks 'WEBVTT'.
C21_NotConvertible ==
    \/ s_arg[Len(s_arg)] = ".srt"
    \/ sfs[s_arg] = None
    \/ sfs[s_arg][1].enc # "utf-8"
    \/ ~\E i \in DOMAIN sfs[s_arg][1].text : sfs[s_arg][1].text[i] = "WEBVTT"
C21_Called == s_pc = "idle" /\ s_pc' # "idle" /\ s_op' = "_convert_to_srt"

\* C21: _convert_to_srt never raises, and on a file that is already .srt,
\* that is not recognisable VTT content or that cannot be read it returns
\* the path it was given and leaves the whole directory as it was (the
\* original file unmodified, no .srt file written).
C21_ConversionDegradesGracefully ==
    [][C21_Called =>
         /\ s_pc' = "returned"
         /\ C21_NotConvertible => (s_result' = <<s_arg>> /\ sfs' = sfs)]_vars

C21_Witness ==
    /\ s_op = "_convert_to_srt" /\ s_pc = "returned"
    /\ s_arg = <<"U", ".vtt">>
    /\ s_result = << <<"U", ".vtt">> >>
    /\ sfs[s_arg] = SubFile(<<"Hello", ".", "\n", "00:00:01", ".", "000", " --> ",
                              "00:00:04", ".", "000">>, "utf-8")
    /\ sfs[<<"U", ".srt">>] = None

\* The selected files of a directory and their total size.
C22_Selected(dir) ==
    {n \in RotNames : /\ dir[n] # None /\ dir[n][1].kind = "file"
                      /\ (pattern = "*.txt" => n[Len(n)] = ".txt")}
RECURSIVE C22_Total(_, _)
C22_Total(dir, names) ==
    IF names = {} THEN 0
    ELSE LET n == CHOOSE x \in names : TRUE IN
         dir[n][1].size + C22_Total(dir, names \ {n})
C22_Deleted == {rot_deleted[i] : i \in DOMAIN rot_deleted}
C22_Mtime(n) == rot_before[n][1].mtime
C22_TotalBefore(k) ==
    C22_Total(rot_before, C22_Selected(rot_before) \ {rot_deleted[i] : i \in 1..k})
\* Every file of the set is at most as new as every selected file outside it.
C22_IsOldestPrefix(set) ==
    \A d \in set : \A f \in C22_Selected(rot_before) \ set :
        C22_Mtime(d) <= C22_Mtime(f)
C22_Common ==
    /\ C22_Deleted \subseteq C22_Selected(rot_before)
    /\ \A i, j \in DOMAIN rot_deleted :
          i < j => C22_Mtime(rot_deleted[i]) <= C22_Mtime(rot_deleted[j])
    /\ \A n \in RotNames :
          directory[n] = IF n \in C22_Deleted THEN None ELSE rot_before[n]
    /\ C22_TotalBefore(0) <= max_size => rot_deleted = <<>>
    /\ \A k \in 0..(Len(rot_deleted) - 1) : C22_TotalBefore(k) > max_size
    /\ (rot_pc = "returned" /\ rot_failed = {}) =>
          C22_Total(directory, C22_Selected(directory)) <= max_size

\* C22 as stated: rotate() deletes selected files oldest first, the deleted
\* files being at every moment the oldest ones of the directory; it deletes
\* nothing when the total is within max_size, never deletes once the rest
\* is within max_size, and ends within max_size when no deletion failed.
C22_DeletesOldestPrefix ==
    rot_pc # "idle" => (C22_Common /\ C22_IsOldestPrefix(C22_Deleted))

\* C22, amended: as above, but the oldest files are the ones on which a
\* deletion was attempted; those whose deletion failed stay in place.
C22_AttemptsOldestPrefix ==
    rot_pc # "idle" =>
        /\ C22_Common
        /\ C22_IsOldestPrefix(C22_Deleted \cup rot_failed)
        /\ C22_Deleted \cap rot_failed = {}

C22_Witness ==
    /\ rot_pc = "returned"
    /\ rot_failed = {<<"b", ".txt">>}
    /\ rot_deleted = << <<"c", ".txt">>, <<"a", ".txt">> >>
    /\ C22_Mtime(<<"b", ".txt">>) = 1
    /\ C22_Mtime(<<"a", ".txt">>) = 2
    /\ max_size = 2
    /\ C22_Total(directory, C22_Selected(directory)) = 2

C24_Called == op = "_apply_video_filters" /\ pv_pc # "idle" /\ config.rotate # None
C24_Raised ==
    /\ pv_pc = "raised"
    /\ pv_error # None
    /\ pv_error[1].class = "ProcessingError"
C24_RotateStage ==
    \E i \in DOMAIN pv_result[1] :
        pv_result[1][i] = [name |-> "rotate", args |-> <<config.rotate[1]>>]

\* C24 as stated: in _apply_video_filters every configured rotation outside
\* 90, 180, 270 ends in ProcessingError, and a rotation of the set is a
\* stage of the filters built whenever the call returns.
C24_RotationValidated ==
    C24_Called =>
        IF config.rotate[1] \notin {90, 180, 270}
        THEN C24_Raised
        ELSE pv_pc = "returned" => C24_RotateStage

\* C24, amended: a rotation of 0 counts as no rotation, it neither fails
\* nor adds a stage; every other value behaves as stated.
C24_NonZeroRotationValidated ==
    C24_Called =>
        IF config.rotate[1] = 0
        THEN pv_pc = "returned" =>
                ~\E i \in DOMAIN pv_result[1] : pv_result[1][i].name = "rotate"
        ELSE IF config.rotate[1] \notin {90, 180, 270}
             THEN C24_Raised
             ELSE pv_pc = "returned" => C24_RotateStage

C24_Witness ==
    /\ op = "_apply_video_filters"
    /\ config.rotate = Some(0 - 90)
    /\ config.crop = Some(<<"1280", ":", "720", ":", "0", ":", "0">>)
    /\ pv_pc = "raised"
    /\ pv_error = Some([class |-> "ProcessingError",
                         msg |-> <<"Rotation must be 90, 180, or 270 degrees">>])

\* download() returned; the languages and formats it was asked for.
C23_Returned == s_op = "download" /\ s_pc = "returned"
C23_Languages == {sub_config.languages[i] : i \in DOMAIN sub_config.languages}
C23_Formats == {sub_config.formats[i] : i \in DOMAIN sub_config.formats}
\* The files extract_info left in the directory whose names end with a
\* requested language followed by a requested format.
C23_Found ==
    {n \in SubNames : /\ s_written[n] # None
                      /\ Len(n) = 3
                      /\ n[2] \in C23_Languages
                      /\ n[3] \in C23_Formats}

C25_IsScanStep(e) == e.op # "fallback"
C25_IsAppend(e) == e.op = "append"
C25_ScanLog == SelectSeq(s_log, C25_IsScanStep)
C25_Paths(log) == [i \in DOMAIN log |-> log[i].path]
C25_Step(o, file, path) == [op |-> o, file |-> file, path |-> path]
\* What the enabled operations must log for the file f when p is the path
\* the conversion gave.
C25_Group(f, p) ==
    (IF sub_config.fix_encoding THEN <<C25_Step("_fix_encoding", f, f)>> ELSE <<>>)
    \o (IF sub_config.convert_to_srt /\ f[Len(f)] = ".vtt"
        THEN <<C25_Step("_convert_to_srt", f, p)>> ELSE <<>>)
    \o (IF p # f THEN <<C25_Step("unlink", f, f)>> ELSE <<>>)
    \o (IF sub_config.remove_formatting
        THEN <<C25_Step("_remove_formatting", p, p)>> ELSE <<>>)
    \o <<C25_Step("append", p, p)>>
RECURSIVE C25_Ordered(_)
C25_Ordered(log) ==
    IF log = <<>> THEN TRUE
    ELSE LET f == log[1].file
             k == IF sub_config.fix_encoding THEN 2 ELSE 1
             p == IF sub_config.convert_to_srt /\ f[Len(f)] = ".vtt" /\ k <= Len(log)
                  THEN log[k].path ELSE f
             g == C25_Group(f, p)
         IN /\ Len(log) >= Len(g)
            /\ SubSeq(log, 1, Len(g)) = g
            /\ C25_Ordered(SubSeq(log, Len(g) + 1, Len(log)))
C25_Tags == {"<b>", "</b>", "<i>", "</i>", "{y:i}"}

\* C25: for each file found the enabled operations run in the order fix
\* encoding, convert, (unlink the source,) remove formatting, collect; the
\* formatting is removed from the file the conversion produced and that
\* path is the one collected, so a collected file that can be read holds
\* no markup when removal is enabled.
C25_OperationsInOrder ==
    C23_Returned =>
        /\ C25_Ordered(C25_ScanLog)
        /\ LET scanned == C25_Paths(SelectSeq(C25_ScanLog, C25_IsAppend)) IN
           /\ SubSeq(s_collected, 1, Len(scanned)) = scanned
           /\ sub_config.remove_formatting =>
                 \A i \in DOMAIN scanned :
                    (sfs[scanned[i]] # None /\ sfs[scanned[i]][1].enc = "utf-8") =>
                       \A j \in DOMAIN sfs[scanned[i]][1].text :
                          sfs[scanned[i]][1].text[j] \notin C25_Tags

C25_Witness ==
    /\ C23_Returned
    /\ sub_config.fix_encoding /\ sub_config.convert_to_srt
    /\ sub_config.remove_formatting /\ ~sub_config.merge_subtitles
    /\ sub_config.formats = <<".vtt">>
    /\ s_log = << C25_Step("_fix_encoding", <<"T", ".en", ".vtt">>, <<"T", ".en", ".vtt">>),
                  C25_Step("_convert_to_srt", <<"T", ".en", ".vtt">>, <<"T", ".en", ".srt">>),
                  C25_Step("unlink", <<"T", ".en", ".vtt">>, <<"T", ".en", ".vtt">>),
                  C25_Step("_remove_formatting", <<"T", ".en", ".srt">>, <<"T", ".en", ".srt">>),
                  C25_Step("append", <<"T", ".en", ".srt">>, <<"T", ".en", ".srt">>) >>
    /\ s_result = << <<"T", ".en", ".srt">> >>
    /\ sfs[<<"T", ".en", ".vtt">>] = None
    /\ sfs[<<"T", ".en", ".srt">>][1].text =
         << "1", "\n", "00:00:01", ",", "000", " --> ", "00:00:04", ",", "000",
            "\n", "Subtitle in ", ".en", "\n" >>

\* The conversions of the fallback step and what the scan collected.
C26_IsFallback(e) == e.op = "fallback"
C26_Fallbacks == SelectSeq(s_log, C26_IsFallback)
C26_ScanPaths == C25_Paths(SelectSeq(C25_ScanLog, C25_IsAppend))
C26_MustRun ==
    /\ ".srt" \in C23_Formats
    /\ \A i \in DOMAIN C26_ScanPaths : C26_ScanPaths[i][Len(C26_ScanPaths[i])] # ".srt"
C26_VttFiles == {n \in SubNames : s_scanned[n] # None /\ n[Len(n)] = ".vtt"}
C26_Converted(n) ==
    IF /\ s_scanned[n][1].enc = "utf-8"
       /\ \E i \in DOMAIN s_scanned[n][1].text : s_scanned[n][1].text[i] = "WEBVTT"
    THEN SubSeq(n, 1, Len(n) - 1) \o <<".srt">> ELSE n

\* C26: when SRT is requested and the scan collected no .srt path, every
\* VTT file of the directory is converted once and each conversion result
\* is in the list of collected paths (the list returned unless it is
\* merged); otherwise no fallback conversion is made and the list is the
\* one the scan collected.
C26_FallbackConvertsEveryVtt ==
    C23_Returned =>
        IF C26_MustRun
        THEN /\ {C26_Fallbacks[i].file : i \in DOMAIN C26_Fallbacks} = C26_VttFiles
             /\ Len(C26_Fallbacks) = Cardinality(C26_VttFiles)
             /\ \A i \in DOMAIN C26_Fallbacks :
                   /\ C26_Fallbacks[i].path = C26_Converted(C26_Fallbacks[i].file)
                   /\ \E j \in DOMAIN s_collected :
                         s_collected[j] = C26_Fallbacks[i].path
                   /\ (~sub_config.merge_subtitles \/ Len(s_collected) <= 1) =>
                         \E j \in DOMAIN s_result :
                            s_result[j] = C26_Fallbacks[i].path
                   /\ C26_Fallbacks[i].path # C26_Fallbacks[i].file =>
                         sfs[C26_Fallbacks[i].path] # None
        ELSE /\ C26_Fallbacks = <<>>
             /\ s_collected = C26_ScanPaths

C26_Witness ==
    /\ C23_Returned
    /\ sub_config.formats = <<".srt">>
    /\ ~sub_config.merge_subtitles
    /\ C26_ScanPaths = <<>>
    /\ s_log = << C25_Step("fallback", <<"T", ".en", ".vtt">>, <<"T", ".en", ".srt">>),
                  C25_Step("fallback", <<"U", ".vtt">>, <<"U", ".srt">>) >>
    /\ s_result = << <<"T", ".en", ".srt">>, <<"U", ".srt">> >>
    /\ sfs[<<"U", ".srt">>] # None
    /\ sfs[<<"U", ".vtt">>] # None

\* A conversion wrote path: a step that gave a path other than its file.
C29_Wrote(e) == e.op \in {"_convert_to_srt", "fallback"} /\ e.path # e.file

\* C29: the list download() returns holds no path twice, and no
\* conversion writes a path that was collected before it.
C29_NoDuplicateNoOverwrite ==
    C23_Returned =>
        /\ \A i, j \in DOMAIN s_result : i # j => s_result[i] # s_result[j]
        /\ \A i, j \in DOMAIN s_log :
              (i < j /\ s_log[i].op = "append" /\ C29_Wrote(s_log[j])) =>
                 s_log[j].path # s_log[i].path

\* The tokens of a text that are cue times.
C30_IsTime(tok) == tok \in {"00:00:01", "00:00:02", "00:00:04", "00:00:05", "000"}
C30_Times(text) == SelectSeq(text, C30_IsTime)
\* The text a collected path was made from: the file of the last
\* conversion that wrote it, or the file itself, as extract_info left them.
C30_Writers(p) == {i \in DOMAIN s_log : C29_Wrote(s_log[i]) /\ s_log[i].path = p}
C30_Source(p) ==
    IF C30_Writers(p) = {} THEN p
    ELSE s_log[CHOOSE i \in C30_Writers(p) : \A j \in C30_Writers(p) : j <= i].file
RECURSIVE C30_AllTimes(_)
C30_AllTimes(paths) ==
    IF paths = <<>> THEN <<>>
    ELSE C30_Times(s_written[C30_Source(Head(paths))][1].text)
         \o C30_AllTimes(Tail(paths))

\* C30: whatever time_offset is configured, the cue times of every file
\* download() collected, and of the merged file, are those of the files
\* extract_info left in the directory.
C30_TimingsUntouched ==
    C23_Returned =>
        /\ \A i \in DOMAIN s_collected :
              LET p == s_collected[i] IN
              /\ s_written[C30_Source(p)] # None
              /\ sfs[p] # None
              /\ C30_Times(sfs[p][1].text)
                   = C30_Times(s_written[C30_Source(p)][1].text)
        /\ s_result = <<MergedName>> =>
              C30_Times(sfs[MergedName][1].text) = C30_AllTimes(s_collected)

C30_Witness ==
    /\ C23_Returned
    /\ sub_config.time_offset = 2000
    /\ sub_config.convert_to_srt
    /\ s_result = << <<"T", ".en", ".srt">>, <<"T", ".es", ".srt">> >>
    /\ C30_Source(<<"T", ".en", ".srt">>) = <<"T", ".en", ".vtt">>
    /\ C30_Source(<<"T", ".es", ".srt">>) = <<"T", ".es", ".vtt">>
    /\ C30_Times(sfs[<<"T", ".en", ".srt">>][1].text)
         = <<"00:00:01", "000", "00:00:04", "000">>
    /\ C30_Times(sfs[<<"T", ".es", ".srt">>][1].text)
         = <<"00:00:01", "000", "00:00:04", "000">>

\* The operation called on its own has failed: the file is missing, or
\* (encoding fix) no encoding is detected, or (formatting removal) the
\* bytes do not decode as UTF-8.  A failed operation leaves the file as
\* it was.
C27_Failed ==
    /\ s_op \in {"_fix_encoding", "_remove_formatting"}
    /\ s_pc # "idle"
    /\ \/ sfs[s_arg] = None
       \/ s_op = "_fix_encoding" /\ sfs[s_arg][1].enc = "unknown"
       \/ s_op = "_remove_formatting" /\ sfs[s_arg][1].enc # "utf-8"

\* C27: a failure of the encoding fix or of the formatting removal is
\* logged and the operation ends with an exception, never with a return.
C27_FailureLoggedAndRaised ==
    C27_Failed =>
        /\ \E i \in DOMAIN s_log : s_log[i].op = "logger.error"
        /\ s_pc = "raised"
        /\ s_error # None

\* The outcomes the engine had in store for the attempts made, in order.
C28_IsCall(e) == e.type = "call"
C28_Own == [i \in DOMAIN SelectSeq(events, C28_IsCall) |->
              SelectSeq(events, C28_IsCall)[i].outcome]
C28_Success(o) == o.kind = "info" /\ o.file.exists
C28_Unsupported(o) ==
    \/ o.kind = "UnsupportedError"
    \/ o.kind = "DownloadError" /\ \E i \in DOMAIN o.msg : o.msg[i] = "Unsupported URL"

\* C28: whatever progress events an attempt delivers to the hook, the
\* loop goes on exactly after the attempts the engine itself failed, and
\* the DownloadResult is the one the engine's own outcomes determine:
\* success with the file of the first successful attempt, failure without
\* retry for an unsupported platform, and otherwise failure after
\* `retries` attempts.
C28_ProgressDoesNotInfluence ==
    pc = "done" =>
        /\ raised = None
        /\ \A i \in 1..(Len(C28_Own) - 1) :
              ~C28_Success(C28_Own[i]) /\ ~C28_Unsupported(C28_Own[i])
        /\ IF C28_Own # <<>> /\ C28_Success(C28_Own[Len(C28_Own)])
           THEN /\ result[1].success
                /\ result[1].filepath = <<C28_Own[Len(C28_Own)].file.path>>
           ELSE /\ ~result[1].success
                /\ (C28_Own = <<>> \/ ~C28_Unsupported(C28_Own[Len(C28_Own)])) =>
                      Len(C28_Own) = retries

====
